---- MODULE Spec2Model ----
(***************************************************************************)
(* A model of the stem repository of app.py: the files kept under          *)
(* separated/ and in the upload folder, the handlers that read them        *)
(* (serve_stem, load_project), and the handlers that write them            *)
(* (upload_file, cleanup_job, separate_audio with its tool run,            *)
(* split_vocals, split_drums, add_stem), with the pipes between the        *)
(* server and the separation tool it starts.                               *)
(*                                                                         *)
(* Strings are sequences of one-character strings, so that the string      *)
(* tests of the code (substring, prefix, extension splitting, URL          *)
(* building and routing) are computed and not assumed.  A path is a        *)
(* sequence of names, relative to the working directory of the server,     *)
(* which is taken to be the application root that send_from_directory      *)
(* resolves against.                                                       *)
(***************************************************************************)
EXTENDS Integers, Sequences, FiniteSets, TLC

VARIABLES
  files,    \* the files under the working directory, as paths
  dirs,     \* the directories under the working directory, as paths
  uploads,  \* the names of the files in UPLOAD_FOLDER
  req,      \* the request handled last
  resp,     \* its response
  nruns,    \* the number of runs begun
  writers,  \* the refinement run each server thread is in the middle of
  partial,  \* the files that were opened for writing and not completed
  proc      \* the separation tool's process and the thread that invoked it

vars == <<files, dirs, uploads, req, resp, nruns, writers, partial, proc>>

(***************************************************************************)
(* String literals of the source.                                          *)
(***************************************************************************)
Lit == [
  separated |-> <<"s", "e", "p", "a", "r", "a", "t", "e", "d">>,
  htdemucs_6s |-> <<"h", "t", "d", "e", "m", "u", "c", "s", "_", "6", "s">>,
  htdemucs_ft |-> <<"h", "t", "d", "e", "m", "u", "c", "s", "_", "f", "t">>,
  htdemucs |-> <<"h", "t", "d", "e", "m", "u", "c", "s">>,
  spleeter |-> <<"s", "p", "l", "e", "e", "t", "e", "r">>,
  vocal_splits |-> <<"v", "o", "c", "a", "l", "_", "s", "p", "l", "i", "t", "s">>,
  drum_splits |-> <<"d", "r", "u", "m", "_", "s", "p", "l", "i", "t", "s">>,
  vocals |-> <<"v", "o", "c", "a", "l", "s">>,
  drums |-> <<"d", "r", "u", "m", "s">>,
  bass |-> <<"b", "a", "s", "s">>,
  guitar |-> <<"g", "u", "i", "t", "a", "r">>,
  piano |-> <<"p", "i", "a", "n", "o">>,
  other |-> <<"o", "t", "h", "e", "r">>,
  accompaniment |-> <<"a", "c", "c", "o", "m", "p", "a", "n", "i", "m", "e", "n", "t">>,
  mix |-> <<"m", "i", "x">>,
  mixture |-> <<"m", "i", "x", "t", "u", "r", "e">>,
  original |-> <<"o", "r", "i", "g", "i", "n", "a", "l">>,
  lead |-> <<"l", "e", "a", "d">>,
  backing |-> <<"b", "a", "c", "k", "i", "n", "g">>,
  kick |-> <<"k", "i", "c", "k">>,
  snare |-> <<"s", "n", "a", "r", "e">>,
  hihat |-> <<"h", "i", "h", "a", "t">>,
  cymbals |-> <<"c", "y", "m", "b", "a", "l", "s">>,
  mp3 |-> <<".", "m", "p", "3">>,
  wav |-> <<".", "w", "a", "v">>,
  flac |-> <<".", "f", "l", "a", "c">>,
  m4a |-> <<".", "m", "4", "a">>,
  ogg |-> <<".", "o", "g", "g">>,
  api |-> <<"/", "a", "p", "i", "/", "s", "t", "e", "m", "s", "/">>,
  s2 |-> <<"2", "s", "t", "e", "m", "s">>,
  s4 |-> <<"4", "s", "t", "e", "m", "s">>,
  s5 |-> <<"5", "s", "t", "e", "m", "s">>,
  demucs |-> <<"d", "e", "m", "u", "c", "s">>,
  dotdot |-> <<".", ".">>,
  curdir |-> <<".">>,
  tmpdir |-> <<"/", "t", "m", "p", "/", "t", "m", "p", "x">>,
  t1 |-> <<"t", "1">>,
  t12 |-> <<"t", "1", "2">>,
  old |-> <<"o", "l", "d">>,
  mdx_extra |-> <<"m", "d", "x", "_", "e", "x", "t", "r", "a">>
]

(***************************************************************************)
(* Python string and path functions.                                       *)
(***************************************************************************)

\* s in t
IsSubstr(s, t) ==
  \E i \in 1..(Len(t) - Len(s) + 1) : SubSeq(t, i, i + Len(s) - 1) = s

\* t.startswith(s)
StartsWith(t, s) == Len(s) <= Len(t) /\ SubSeq(t, 1, Len(s)) = s

\* the positions of character c in s
Positions(s, c) == {i \in 1..Len(s) : s[i] = c}

Max(S) == CHOOSE x \in S : \A y \in S : y <= x

Min(S) == CHOOSE x \in S : \A y \in S : x <= y

\* os.path.splitext(name): <<root, ext>>; the extension starts at the last
\* dot, and a name whose only dots are leading has no extension.
splitext(name) ==
  LET dots == Positions(name, ".")
      last == IF dots = {} THEN 0 ELSE Max(dots)
      leading == \A i \in 1..(last - 1) : name[i] = "."
  IN  IF last = 0 \/ leading
      THEN <<name, <<>>>>
      ELSE <<SubSeq(name, 1, last - 1), SubSeq(name, last, Len(name))>>

\* pathlib.Path(name).stem: the name without its last suffix; a name that
\* starts with its only dot, or ends with a dot, has no suffix.
PathStem(name) ==
  LET dots == Positions(name, ".")
      last == IF dots = {} THEN 0 ELSE Max(dots)
  IN  IF last <= 1 \/ last = Len(name) THEN name ELSE SubSeq(name, 1, last - 1)

\* os.path.join of the names of a path
RECURSIVE PathStr(_)
PathStr(p) ==
  IF p = <<>> THEN <<>>
  ELSE IF Len(p) = 1 THEN p[1]
  ELSE p[1] \o <<"/">> \o PathStr(Tail(p))

\* str.split('/')
RECURSIVE SplitSlash(_)
SplitSlash(s) ==
  LET sl == Positions(s, "/")
  IN  IF sl = {} THEN <<s>>
      ELSE <<SubSeq(s, 1, Min(sl) - 1)>> \o SplitSlash(SubSeq(s, Min(sl) + 1, Len(s)))

Reverse(s) == [i \in 1..Len(s) |-> s[Len(s) + 1 - i]]

SeqToSet(s) == {s[i] : i \in 1..Len(s)}

(***************************************************************************)
(* Configuration of the application.                                       *)
(***************************************************************************)
SEPARATED_FOLDER == Lit.separated

\* tempfile.mkdtemp(): an absolute directory, fresh at every start
UPLOAD_FOLDER == Lit.tmpdir

extensions == <<Lit.mp3, Lit.wav, Lit.flac, Lit.m4a, Lit.ogg>>

model_folders == <<Lit.htdemucs_6s, Lit.htdemucs_ft, Lit.htdemucs, Lit.spleeter>>

(***************************************************************************)
(* The file system.  F is the set of files and D the set of directories,   *)
(* both as paths.  A directory listing enumerates the entries in an order  *)
(* the operating system chooses: EntryOrder forwards, or backwards when    *)
(* rev is TRUE.                                                            *)
(***************************************************************************)
JobIds == {Lit.t1, Lit.t12}

FolderOrder ==
  <<Lit.spleeter, Lit.old, Lit.htdemucs, Lit.htdemucs_ft, Lit.htdemucs_6s,
    Lit.mdx_extra, Lit.vocal_splits, Lit.drum_splits, Lit.t1, Lit.t12,
    Lit.vocals, Lit.drums>>

StemOrder ==
  <<Lit.vocals, Lit.drums, Lit.bass, Lit.guitar, Lit.piano, Lit.other,
    Lit.accompaniment, Lit.mixture, Lit.mix, Lit.lead, Lit.backing,
    Lit.kick, Lit.snare, Lit.hihat, Lit.cymbals, Lit.t1, Lit.t12>>

ExtOrder == <<Lit.wav, Lit.mp3, Lit.flac>>

FileOrder ==
  [k \in 1..(Len(StemOrder) * Len(ExtOrder)) |->
     StemOrder[((k - 1) \div Len(ExtOrder)) + 1] \o ExtOrder[((k - 1) % Len(ExtOrder)) + 1]]

EntryOrder == FolderOrder \o FileOrder

\* Op applied to the value of v, with v computed once
Bind(v, Op(_)) == CHOOSE out \in {Op(r) : r \in {v}} : TRUE

\* a path that leads above the working directory, where nothing is known
Nowhere == <<Lit.dotdot>>

\* the path the system resolves p to: a component '..' steps out of the
\* directory reached so far, which has to be a directory
RECURSIVE resolve(_, _, _, _)
resolve(D, p, i, at) ==
  IF i > Len(p) THEN at
  ELSE IF p[i] # Lit.dotdot THEN resolve(D, p, i + 1, Append(at, p[i]))
  ELSE IF at \in D THEN resolve(D, p, i + 1, SubSeq(at, 1, Len(at) - 1))
  ELSE Nowhere

realpath(D, p) ==
  IF \E i \in DOMAIN p : p[i] = Lit.dotdot THEN resolve(D, p, 1, <<>>) ELSE p

\* os.path.exists(p); the working directory itself exists
exists(F, D, p) ==
  LET there(q) == q = <<>> \/ q \in F \/ q \in D
  IN  Bind(realpath(D, p), there)

\* [Op(x) for x in s]
MapSeq(s, Op(_)) ==
  LET map(r) == [i \in 1..Len(r) |-> Op(r[i])]
  IN  Bind(s, map)

RECURSIVE ConcatFrom(_, _)
ConcatFrom(ss, i) == IF i > Len(ss) THEN <<>> ELSE ss[i] \o ConcatFrom(ss, i + 1)

\* the concatenation of the sequences of ss
Flatten(ss) ==
  LET all(r) == ConcatFrom(r, 1)
  IN  Bind(ss, all)

\* the concatenation of Op(x) for x in s
FlatMap(s, Op(_)) == Flatten(MapSeq(s, Op))

\* the names of the entries of directory d
dir_entries(F, D, d) ==
  {p[Len(p)] : p \in {q \in F \cup D : Len(q) = Len(d) + 1 /\ SubSeq(q, 1, Len(d)) = d}}

\* os.listdir(d): the names of the entries of d, in enumeration order
listdir(F, D, d, rev) ==
  LET order == IF rev THEN Reverse(EntryOrder) ELSE EntryOrder
      select(names) == LET present(name) == name \in names
                       IN  SelectSeq(order, present)
  IN  Bind(dir_entries(F, D, d), select)

\* os.listdir(UPLOAD_FOLDER), U the set of file names in the upload folder
listuploads(U, rev) ==
  LET present(name) == name \in U
  IN  SelectSeq(IF rev THEN Reverse(EntryOrder) ELSE EntryOrder, present)

\* os.walk(top): the directories under top, top-down, each directory's
\* subdirectories in enumeration order; nothing when top is no directory
RECURSIVE walk(_, _, _, _)
walk(F, D, top, rev) ==
  IF top \notin D THEN <<>>
  ELSE LET isdir(name) == Append(top, name) \in D
           below(name) == walk(F, D, Append(top, name), rev)
       IN  <<top>> \o FlatMap(SelectSeq(listdir(F, D, top, rev), isdir), below)

(***************************************************************************)
(* serve_stem                                                              *)
(***************************************************************************)
NoFile == <<>>

\* flask.send_from_directory(directory, name): the file, or NotFound when
\* the path is no regular file, which serve_stem's handler turns into 500
send_from_directory(F, D, directory, name) ==
  LET send(q) == IF q \in F THEN [status |-> 200, file |-> q]
                 ELSE [status |-> 500, file |-> NoFile]
  IN  Bind(realpath(D, Append(directory, name)), send)

\* for ext in extensions: if os.path.exists(dir/stem+ext): the existing
\* candidates <<directory, name>>, in probing order
probe(F, D, dir, stem_name) ==
  LET there(ext) == exists(F, D, Append(dir, stem_name \o ext))
      cand(ext) == <<dir, stem_name \o ext>>
  IN  MapSeq(SelectSeq(extensions, there), cand)

\* the uploaded files whose filename stem is the job id
uploaded_matches(U, job_id, rev) ==
  LET same(f) == PathStem(f) = job_id
  IN  SelectSeq(listuploads(U, rev), same)

\* the special handling of 'mix': the uploaded file, then per model folder
\* mixture.mp3, mix.wav, mix.flac
mix_candidates(F, D, U, job_id, rev) ==
  LET names == <<Lit.mixture \o Lit.mp3, Lit.mix \o Lit.wav, Lit.mix \o Lit.flac>>
      upload(f) == <<<<UPLOAD_FOLDER>>, f>>
      inFolder(mf) ==
        LET there(name) == exists(F, D, <<SEPARATED_FOLDER, mf, job_id, name>>)
            cand(name) == <<<<SEPARATED_FOLDER, mf, job_id>>, name>>
        IN  MapSeq(SelectSeq(names, there), cand)
  IN  MapSeq(uploaded_matches(U, job_id, rev), upload) \o FlatMap(model_folders, inFolder)

\* the child splits: every walked directory whose path contains the job id
\* and that has a subdirectory named parent_dir, then the legacy directories
child_candidates(F, D, job_id, parent_dir, stem_name, rev) ==
  LET inRoot(root) ==
        IF IsSubstr(job_id, PathStr(root)) /\ Append(root, parent_dir) \in D
        THEN probe(F, D, Append(root, parent_dir), stem_name)
        ELSE <<>>
      legacy(parent, folder) ==
        IF parent_dir = parent /\ exists(F, D, <<SEPARATED_FOLDER, folder, job_id>>)
        THEN probe(F, D, <<SEPARATED_FOLDER, folder, job_id>>, stem_name)
        ELSE <<>>
  IN  FlatMap(walk(F, D, <<SEPARATED_FOLDER>>, rev), inRoot)
      \o legacy(Lit.vocals, Lit.vocal_splits)
      \o legacy(Lit.drums, Lit.drum_splits)

\* common locations without the model folder
canonical_candidates_flat(F, D, job_id, stem_name) ==
  LET inBase(mf) ==
        IF exists(F, D, <<SEPARATED_FOLDER, job_id>>)
        THEN probe(F, D, <<SEPARATED_FOLDER, job_id>>, stem_name)
        ELSE <<>>
  IN  FlatMap(model_folders, inBase)

\* the common locations, in the order of possible_base_dirs
canonical_candidates(F, D, job_id, stem_name) ==
  LET inBase(mf) ==
        IF exists(F, D, <<SEPARATED_FOLDER, mf, job_id>>)
        THEN probe(F, D, <<SEPARATED_FOLDER, mf, job_id>>, stem_name)
        ELSE <<>>
  IN  FlatMap(model_folders, inBase)

\* the generic search: every walked directory whose path contains the job id
generic_candidates(F, D, job_id, stem_name, rev) ==
  LET inRoot(root) ==
        IF IsSubstr(job_id, PathStr(root)) THEN probe(F, D, root, stem_name) ELSE <<>>
  IN  FlatMap(walk(F, D, <<SEPARATED_FOLDER>>, rev), inRoot)

\* serve_stem with the generic search tried before the common locations
stem_candidates_generic_first(F, D, U, job_id, stem_name, parent_dir, rev) ==
  (IF stem_name = Lit.mix THEN mix_candidates(F, D, U, job_id, rev) ELSE <<>>)
  \o (IF parent_dir # <<>>
      THEN child_candidates(F, D, job_id, parent_dir, stem_name, rev)
      ELSE <<>>)
  \o generic_candidates(F, D, job_id, stem_name, rev)
  \o canonical_candidates(F, D, job_id, stem_name)

\* the candidates of serve_stem in the order the handler tries them
stem_candidates(F, D, U, job_id, stem_name, parent_dir, rev) ==
  (IF stem_name = Lit.mix THEN mix_candidates(F, D, U, job_id, rev) ELSE <<>>)
  \o (IF parent_dir # <<>>
      THEN child_candidates(F, D, job_id, parent_dir, stem_name, rev)
      ELSE <<>>)
  \o canonical_candidates(F, D, job_id, stem_name)
  \o generic_candidates(F, D, job_id, stem_name, rev)

\* GET /api/stems/<job_id>/<path:stem_path>: the first candidate is sent
serve_stem(F, D, U, job_id, stem_path, rev) ==
  LET send(cands) ==
        IF cands = <<>>
        THEN [status |-> 404, file |-> NoFile]
        ELSE IF cands[1][1] = <<UPLOAD_FOLDER>>
             THEN [status |-> 200, file |-> Append(cands[1][1], cands[1][2])]
             ELSE send_from_directory(F, D, cands[1][1], cands[1][2])
      handle(path_parts) ==
        Bind(stem_candidates(F, D, U, job_id, path_parts[Len(path_parts)],
                             IF Len(path_parts) > 1 THEN path_parts[1] ELSE <<>>, rev),
             send)
  IN  Bind(SplitSlash(stem_path), handle)

(***************************************************************************)
(* Manifest entries and URLs                                               *)
(***************************************************************************)
\* f'/api/stems/{job_id}/{stem_name}'
stem_url(job_id, stem_name) == Lit.api \o job_id \o <<"/">> \o stem_name

\* f'/api/stems/{job_id}/{parent}/{name}'
child_url(job_id, parent, name) ==
  Lit.api \o job_id \o <<"/">> \o parent \o <<"/">> \o name

\* the route /api/stems/<job_id>/<path:stem_path>: <<job_id, stem_path>> of
\* a URL, or <<>> when the URL does not match the route
route_stem(url) ==
  IF ~StartsWith(url, Lit.api) THEN <<>>
  ELSE LET rest == SubSeq(url, Len(Lit.api) + 1, Len(url))
           sl == Positions(rest, "/")
       IN  IF sl = {} \/ Min(sl) = 1 \/ Min(sl) = Len(rest) THEN <<>>
           ELSE <<SubSeq(rest, 1, Min(sl) - 1), SubSeq(rest, Min(sl) + 1, Len(rest))>>

\* os.makedirs(p, exist_ok=True): p and its ancestors
makedirs(D, p) == D \cup {SubSeq(p, 1, n) : n \in 1..Len(p)}

(***************************************************************************)
(* The external separation tools, as far as the invocation fixes them:     *)
(* the tool writes the stems named in out under the output root it was     *)
(* given, in its own layout, and nothing when out is empty.                *)
(***************************************************************************)
\* demucs file -n model -o separated --mp3: separated/{model}/{track}/{stem}.mp3
demucs_tool(F, D, file_name, model, out) ==
  LET dir == <<SEPARATED_FOLDER, model, PathStem(file_name)>>
  IN  IF out = {} THEN [F |-> F, D |-> D]
      ELSE [F |-> F \cup {Append(dir, st \o Lit.mp3) : st \in out},
            D |-> makedirs(D, dir)]

\* spleeter separate -p spleeter:model -o separated file:
\* separated/{track}/{stem}.wav
spleeter_tool(F, D, file_name, out) ==
  LET dir == <<SEPARATED_FOLDER, PathStem(file_name)>>
  IN  IF out = {} THEN [F |-> F, D |-> D]
      ELSE [F |-> F \cup {Append(dir, st \o Lit.wav) : st \in out},
            D |-> makedirs(D, dir)]

(***************************************************************************)
(* run_demucs_separation and run_spleeter_separation, after the tool has   *)
(* exited with status rc, having printed stdout and stderr; F and D are    *)
(* the disk the tool left.  The result is what the function returns, or    *)
(* the exception it raises.                                                *)
(***************************************************************************)
Raise(msg, detail) ==
  [raised |-> TRUE, msg |-> msg, detail |-> detail]

\* expected_stems of run_demucs_separation
demucs_expected(model) ==
  IF model = Lit.htdemucs_6s
  THEN <<Lit.vocals, Lit.drums, Lit.bass, Lit.guitar, Lit.piano, Lit.other>>
  ELSE <<Lit.vocals, Lit.drums, Lit.bass, Lit.other>>

\* model_folder of run_demucs_separation
demucs_folder(model) ==
  IF model = Lit.htdemucs_6s THEN Lit.htdemucs_6s
  ELSE IF model = Lit.htdemucs_ft THEN Lit.htdemucs_ft
  ELSE Lit.htdemucs

\* expected_stems of run_spleeter_separation
spleeter_expected(model) ==
  IF model = Lit.s2 THEN <<Lit.vocals, Lit.accompaniment>>
  ELSE IF model = Lit.s4 THEN <<Lit.vocals, Lit.drums, Lit.bass, Lit.other>>
  ELSE <<Lit.vocals, Lit.drums, Lit.bass, Lit.piano, Lit.other>>

\* a scan that takes every expected stem for available
scan_stems_unchecked(F, D, output_dir, expected_stems, ext) == expected_stems

\* the scan for available stems
scan_stems(F, D, output_dir, expected_stems, ext) ==
  LET there(st) == exists(F, D, Append(output_dir, st \o ext))
  IN  SelectSeq(expected_stems, there)

\* an invoker that takes text on the error stream for a failure
proceeds_on_quiet_stderr(rc, stdout, stderr) == rc = 0 /\ stderr = ""

\* whether the invoker goes on to scan the outputs
proceeds(rc, stdout, stderr) == rc = 0

run_demucs_separation(F, D, file_path, job_id, model, rc, stdout, stderr) ==
  IF ~proceeds(rc, stdout, stderr)
  THEN Raise("Separation failed: ", stderr)
  ELSE LET output_dir == <<SEPARATED_FOLDER, demucs_folder(model), job_id>>
           available == scan_stems(F, D, output_dir, demucs_expected(model), Lit.mp3)
       IN  IF ~exists(F, D, output_dir)
           THEN Raise("Output directory not found", "")
           ELSE [raised |-> FALSE,
                 output_dir |-> output_dir,
                 stems |-> available,
                 stem_paths |-> [st \in SeqToSet(available) |->
                                   Append(output_dir, st \o Lit.mp3)],
                 mix_path |-> file_path]

run_spleeter_separation(F, D, file_path, job_id, model, rc, stdout, stderr) ==
  IF ~proceeds(rc, stdout, stderr)
  THEN Raise("Spleeter separation failed: ", stderr)
  ELSE LET spleeter_output == <<SEPARATED_FOLDER, PathStem(file_path[Len(file_path)])>>
           available == scan_stems(F, D, spleeter_output, spleeter_expected(model), Lit.wav)
       IN  [raised |-> FALSE,
            output_dir |-> spleeter_output,
            stems |-> available,
            stem_paths |-> [st \in SeqToSet(available) |->
                              Append(spleeter_output, st \o Lit.wav)],
            mix_path |-> file_path]

\* the manifest separate_audio builds from a result
separation_manifest(U, job_id, splitter, model, result) ==
  LET mix_path == result.mix_path
      mix_there == Len(mix_path) = 2 /\ mix_path[1] = UPLOAD_FOLDER /\ mix_path[2] \in U
  IN  [status |-> "success",
       job_id |-> job_id,
       splitter |-> splitter,
       model |-> model,
       output_dir |-> result.output_dir,
       stems |-> [i \in 1..Len(result.stems) |->
                    [name |-> result.stems[i],
                     url |-> stem_url(job_id, result.stems[i]),
                     path |-> result.stem_paths[result.stems[i]]]],
       mix |-> IF mix_there
               THEN <<[url |-> stem_url(job_id, Lit.mix), path |-> mix_path]>>
               ELSE <<>>,
       child_splits |-> <<>>]

Ok(body) == [status |-> 200, body |-> body]

Error(code, msg, detail) == [status |-> code, body |-> [error |-> <<msg, detail>>]]

\* POST /api/separate/<job_id>, with the tool's run inside it: [F, D, resp],
\* the disk after the request and the response.  avail is what
\* detect_splitters reports; rc, stdout, stderr and out are the tool's run.
separate_audio(F, D, U, job_id, splitter, model, avail, rev, rc, stdout, stderr, out) ==
  LET matches == uploaded_matches(U, job_id, rev)
      file_path == <<UPLOAD_FOLDER, matches[1]>>
      respond(t, result) ==
        [F |-> t.F, D |-> t.D,
         resp |-> IF result.raised
                  THEN Error(500, result.msg, result.detail)
                  ELSE Ok(separation_manifest(U, job_id, splitter, model, result))]
  IN  IF matches = <<>>
      THEN [F |-> F, D |-> D, resp |-> Error(404, "Job not found", "")]
      ELSE IF splitter \notin avail
      THEN [F |-> F, D |-> D, resp |-> Error(400, "Splitter not available", splitter)]
      ELSE IF splitter = "demucs"
      THEN LET t == demucs_tool(F, D, matches[1], model, out)
           IN  respond(t, run_demucs_separation(t.F, t.D, file_path, job_id, model,
                                                rc, stdout, stderr))
      ELSE IF splitter = "spleeter"
      THEN LET made == makedirs(D, <<SEPARATED_FOLDER, Lit.spleeter, job_id>>)
               t == spleeter_tool(F, made, matches[1], out)
           IN  respond(t, run_spleeter_separation(t.F, t.D, file_path, job_id, model,
                                                  rc, stdout, stderr))
      ELSE IF splitter = "mdx23"
      THEN [F |-> F, D |-> D,
            resp |-> Error(500, "MDX23 separation not yet implemented", "")]
      ELSE [F |-> F, D |-> D, resp |-> Error(400, "Unsupported splitter", splitter)]

ALLOWED_EXTENSIONS ==
  {<<"w", "a", "v">>, <<"m", "p", "3">>, <<"a", "i", "f", "f">>, <<"a", "i", "f">>,
   <<"m", "4", "a">>, <<"f", "l", "a", "c">>, <<"o", "g", "g">>}

\* str.lower(), on the capitals that occur
lower(s) ==
  LET low == [c \in {"A", "M", "P", "V", "W"} |->
                CASE c = "A" -> "a" [] c = "M" -> "m" [] c = "P" -> "p"
                  [] c = "V" -> "v" [] c = "W" -> "w"]
  IN  [i \in 1..Len(s) |-> IF s[i] \in DOMAIN low THEN low[s[i]] ELSE s[i]]

\* '.' in filename and filename.rsplit('.', 1)[1].lower() in ALLOWED_EXTENSIONS
allowed_file(filename) ==
  LET dots == Positions(filename, ".")
  IN  /\ dots # {}
      /\ lower(SubSeq(filename, Max(dots) + 1, Len(filename))) \in ALLOWED_EXTENSIONS

\* "_".join(s.split()) once the separators are blanks
RECURSIVE join_words(_)
join_words(s) ==
  LET blanks == Positions(s, " ")
  IN  IF blanks = {} THEN s
      ELSE IF Min(blanks) = 1 THEN join_words(Tail(s))
      ELSE LET rest == join_words(SubSeq(s, Min(blanks) + 1, Len(s)))
           IN  IF rest = <<>> THEN SubSeq(s, 1, Min(blanks) - 1)
               ELSE SubSeq(s, 1, Min(blanks) - 1) \o <<"_">> \o rest

\* str.strip("._")
RECURSIVE strip_dots(_)
strip_dots(s) ==
  IF s # <<>> /\ s[1] \in {".", "_"} THEN strip_dots(Tail(s))
  ELSE IF s # <<>> /\ s[Len(s)] \in {".", "_"} THEN strip_dots(SubSeq(s, 1, Len(s) - 1))
  ELSE s

\* werkzeug.utils.secure_filename: separators become blanks, the words are
\* joined by '_', the characters other than [A-Za-z0-9_.-] are dropped and
\* leading and trailing dots and underscores are stripped
secure_filename(filename) ==
  LET spaced == [i \in 1..Len(filename) |->
                   IF filename[i] = "/" THEN " " ELSE filename[i]]
      safe(c) ==
        c \in {"a", "b", "c", "d", "e", "f", "g", "h", "i", "j", "k", "l", "m",
               "n", "o", "p", "q", "r", "s", "t", "u", "v", "w", "x", "y", "z",
               "A", "M", "P", "V", "W", "0", "1", "2", "3", "4", "5", "6", "7",
               "8", "9", "_", ".", "-"}
  IN  strip_dots(SelectSeq(join_words(spaced), safe))

(***************************************************************************)
(* load_project                                                            *)
(***************************************************************************)
stem_extensions == SeqToSet(extensions)

standard_stems ==
  <<Lit.vocals, Lit.drums, Lit.bass, Lit.guitar, Lit.piano, Lit.other,
    Lit.accompaniment>>

valid_drum_parts ==
  {Lit.kick, Lit.snare, Lit.hihat, <<"h", "i", "-", "h", "a", "t">>,
   <<"h", "i", "_", "h", "a", "t">>, <<"c", "y", "m", "b", "a", "l">>, Lit.cymbals,
   <<"t", "o", "m">>, <<"t", "o", "m", "s">>,
   <<"o", "v", "e", "r", "h", "e", "a", "d">>,
   <<"o", "v", "e", "r", "h", "e", "a", "d", "s">>, <<"r", "o", "o", "m">>,
   <<"c", "r", "a", "s", "h">>, <<"r", "i", "d", "e">>}

valid_vocal_parts ==
  {Lit.lead, Lit.backing,
   Lit.backing \o <<"_">> \o Lit.vocals, Lit.lead \o <<"_">> \o Lit.vocals}

\* one step of the loop over os.listdir(folder_path) that finds the stems
\* and the mix: acc is [found_stems, stem_paths, mix_path] so far, mix_path
\* <<>> for None
scan_item(F, folder_path, item, acc) ==
  LET item_path == Append(folder_path, item)
      name_lower == lower(item)
      starts(stem) == StartsWith(name_lower, lower(stem))
      ext == lower(splitext(item)[2])
      found(matching) ==
        IF matching = <<>> \/ ext \notin stem_extensions THEN acc
        ELSE [acc EXCEPT
                !.found_stems = IF matching[1] \in SeqToSet(@) THEN @
                                ELSE Append(@, matching[1]),
                !.stem_paths = (matching[1] :> item_path) @@ @]
  IN  IF item_path \notin F THEN acc
      ELSE IF \/ IsSubstr(Lit.mix, name_lower)
              \/ IsSubstr(Lit.original, name_lower)
              \/ IsSubstr(Lit.mixture, name_lower)
      THEN [acc EXCEPT !.mix_path = <<item_path>>]
      ELSE Bind(SelectSeq(standard_stems, starts), found)

\* the loop, from item i of the listing on
RECURSIVE scan_from(_, _, _, _, _)
scan_from(F, folder_path, items, i, acc) ==
  IF i > Len(items) THEN acc
  ELSE LET go(next) == scan_from(F, folder_path, items, i + 1, next)
       IN  Bind(scan_item(F, folder_path, items[i], acc), go)

scan_folder(F, D, folder_path, rev) ==
  LET scan(items) == scan_from(F, folder_path, items, 1,
                               [found_stems |-> <<>>, stem_paths |-> <<>>,
                                mix_path |-> <<>>])
  IN  Bind(listdir(F, D, folder_path, rev), scan)

\* the child files of a split directory, as manifest entries: the files of
\* dir with a stem extension whose name contains one of the parts
child_entries(F, D, dir, job_id, parent, rev, parts) ==
  LET keep(item) ==
        /\ Append(dir, item) \in F
        /\ lower(splitext(item)[2]) \in stem_extensions
        /\ \E part \in parts : IsSubstr(part, lower(splitext(item)[1]))
      entry(item) ==
        [name |-> splitext(item)[1],
         url |-> child_url(job_id, parent, splitext(item)[1]),
         path |-> Append(dir, item),
         parent |-> parent]
  IN  MapSeq(SelectSeq(listdir(F, D, dir, rev), keep), entry)

\* the first loop takes every name: the part that every name contains
any_part == {<<>>}

\* child_splits[key] = entries, when there are entries
set_children(cs, key, entries) ==
  IF entries = <<>> THEN cs ELSE (key :> entries) @@ cs

\* child_splits[key].extend(entries) when the key is there, else
\* child_splits[key] = entries, when there are entries
merge_children(cs, key, entries) ==
  IF entries = <<>> THEN cs
  ELSE IF key \in DOMAIN cs THEN (key :> (cs[key] \o entries)) @@ cs
  ELSE (key :> entries) @@ cs

\* the first loop over os.listdir(folder_path): every file of a
\* subdirectory named vocals or drums is a child of it
subdir_children(F, D, folder_path, job_id, rev) ==
  LET subdirs == {item \in SeqToSet(listdir(F, D, folder_path, rev)) :
                    /\ Append(folder_path, item) \in D
                    /\ lower(item) \in {Lit.vocals, Lit.drums}}
      all(item) == child_entries(F, D, Append(folder_path, item), job_id, item, rev,
                                 any_part)
  IN  [item \in {x \in subdirs : all(x) # <<>>} |-> all(item)]

\* the drum parts of dir, when dir is there and wanted
drum_children(F, D, dir, job_id, rev, wanted) ==
  IF wanted /\ exists(F, D, dir)
  THEN child_entries(F, D, dir, job_id, Lit.drums, rev, valid_drum_parts)
  ELSE <<>>

\* the vocal parts of dir, when dir is there and wanted
vocal_children(F, D, dir, job_id, rev, wanted) ==
  IF wanted /\ exists(F, D, dir)
  THEN child_entries(F, D, dir, job_id, Lit.vocals, rev, valid_vocal_parts)
  ELSE <<>>

\* the legacy directories, consulted for a parent that has no children yet
legacy_children(F, D, job_id, rev, cs) ==
  LET withDrums ==
        set_children(cs, Lit.drums,
          drum_children(F, D, <<SEPARATED_FOLDER, Lit.drum_splits, job_id>>, job_id, rev,
                        Lit.drums \notin DOMAIN cs))
  IN  set_children(withDrums, Lit.vocals,
        vocal_children(F, D, <<SEPARATED_FOLDER, Lit.vocal_splits, job_id>>, job_id, rev,
                       Lit.vocals \notin DOMAIN withDrums))

\* child_splits of load_project, a function from parent names to entries
load_child_splits(F, D, folder_path, job_id, rev) ==
  legacy_children(F, D, job_id, rev,
    merge_children(
      set_children(subdir_children(F, D, folder_path, job_id, rev), Lit.drums,
        drum_children(F, D, Append(folder_path, Lit.drums), job_id, rev,
                      Append(folder_path, Lit.drums) \in D)),
      Lit.vocals,
      vocal_children(F, D, Append(folder_path, Lit.vocals), job_id, rev,
                     Append(folder_path, Lit.vocals) \in D)))

\* splitter and model, from the place of the folder under separated/
load_model(folder_path) ==
  LET parts == IF folder_path[1] = SEPARATED_FOLDER
               THEN (IF Len(folder_path) = 1 THEN <<Lit.curdir>> ELSE Tail(folder_path))
               ELSE <<Lit.dotdot>> \o folder_path
      model_folder == parts[1]
  IN  IF ~StartsWith(PathStr(folder_path), SEPARATED_FOLDER)
      THEN [splitter |-> "demucs", model |-> Lit.htdemucs]
      ELSE IF StartsWith(model_folder, Lit.htdemucs)
      THEN [splitter |-> "demucs", model |-> model_folder]
      ELSE IF model_folder = Lit.spleeter
      THEN [splitter |-> "spleeter", model |-> Lit.s4]
      ELSE [splitter |-> "demucs", model |-> Lit.htdemucs]

\* the manifest of load_project, from the scan of the folder
load_manifest(F, D, U, folder_path, job_id, rev, scan) ==
  LET stem(name) == [name |-> name,
                     url |-> stem_url(job_id, name),
                     path |-> scan.stem_paths[name]]
      mix(path) == [url |-> stem_url(job_id, Lit.mix), path |-> path]
      first(fs) == IF fs = <<>> THEN <<>> ELSE <<mix(<<UPLOAD_FOLDER, fs[1]>>)>>
  IN  [status |-> "success",
       job_id |-> job_id,
       splitter |-> load_model(folder_path).splitter,
       model |-> load_model(folder_path).model,
       output_dir |-> folder_path,
       stems |-> MapSeq(scan.found_stems, stem),
       mix |-> IF scan.mix_path # <<>> THEN <<mix(scan.mix_path[1])>>
               ELSE Bind(uploaded_matches(U, job_id, rev), first),
       child_splits |-> load_child_splits(F, D, folder_path, job_id, rev)]

\* POST /api/load-project with {path: folder_path}
load_project(F, D, U, folder_path, rev) ==
  IF folder_path = <<>> THEN Error(400, "No folder path provided", "")
  ELSE IF ~exists(F, D, folder_path) THEN Error(404, "Path does not exist", "")
  ELSE IF folder_path \notin D THEN Error(400, "Path is not a directory", "")
  ELSE LET manifest(scan) ==
             load_manifest(F, D, U, folder_path, folder_path[Len(folder_path)], rev, scan)
       IN  Ok(Bind(scan_folder(F, D, folder_path, rev), manifest))

\* POST /api/browse-folders with {path: base_path}: the subdirectories of
\* base_path, sorted by modification time, newest first; the times rise
\* along the listing (newest_last) or fall along it
browse_folders(F, D, base_path, rev, newest_last) ==
  IF base_path = <<>> \/ ~exists(F, D, base_path)
  THEN Error(404, "Path does not exist", "")
  ELSE IF base_path \notin D THEN Error(500, "Not a directory", "")
  ELSE LET isdir(item) == Append(base_path, item) \in D
           folder(item) == [name |-> item, path |-> Append(base_path, item)]
           sort(fs) == IF newest_last THEN Reverse(fs) ELSE fs
       IN  Ok([folders |->
                 Bind(MapSeq(SelectSeq(listdir(F, D, base_path, rev), isdir), folder),
                      sort)])

(***************************************************************************)
(* split_vocals and split_drums                                            *)
(***************************************************************************)
\* the search for the stem file to refine: the song folders that hold it,
\* the common locations first and then the walked directories
find_stem(F, D, job_id, file_name, rev) ==
  LET inCommon(mf) == exists(F, D, <<SEPARATED_FOLDER, mf, job_id, file_name>>)
      folder(mf) == <<SEPARATED_FOLDER, mf, job_id>>
      holds(root) == IsSubstr(job_id, PathStr(root)) /\ Append(root, file_name) \in F
  IN  MapSeq(SelectSeq(model_folders, inCommon), folder)
      \o SelectSeq(walk(F, D, <<SEPARATED_FOLDER>>, rev), holds)

\* a refinement that answers with the manifest whatever was written
refine_ignoring_failure(F, D, song_folder, job_id, parent, parts, splitter, model, failed, libs, nwritten) ==
  LET split_dir == Append(song_folder, parent)
      path(part) == Append(split_dir, part \o Lit.wav)
      child(part) == [name |-> part,
                      url |-> child_url(job_id, parent, part),
                      path |-> path(part),
                      parent |-> parent]
      written == {path(parts[i]) : i \in 1..(IF nwritten < Len(parts) THEN nwritten
                                              ELSE Len(parts))}
  IN  [F |-> IF libs THEN F \cup written ELSE F, D |-> makedirs(D, split_dir),
       resp |-> Ok([status |-> "success",
                    job_id |-> job_id,
                    splitter |-> splitter,
                    model |-> model,
                    child_splits |-> (parent :> MapSeq(parts, child))])]

\* the refinement of the stem found in song_folder: the parts are written
\* in order to {song_folder}/{parent}/{part}.wav; libs is whether the audio
\* libraries import, nwritten how many parts are written before an
\* exception, all of them when there is none
refine(F, D, song_folder, job_id, parent, parts, splitter, model, failed, libs, nwritten) ==
  LET split_dir == Append(song_folder, parent)
      path(part) == Append(split_dir, part \o Lit.wav)
      child(part) == [name |-> part,
                      url |-> child_url(job_id, parent, part),
                      path |-> path(part),
                      parent |-> parent]
      written == {path(parts[i]) : i \in 1..(IF nwritten < Len(parts) THEN nwritten
                                              ELSE Len(parts))}
  IN  IF ~libs
      THEN [F |-> F, D |-> makedirs(D, split_dir),
            resp |-> Error(400, "requires additional libraries", "")]
      ELSE [F |-> F \cup written, D |-> makedirs(D, split_dir),
            resp |-> IF nwritten < Len(parts)
                     THEN Error(500, failed, "")
                     ELSE Ok([status |-> "success",
                              job_id |-> job_id,
                              splitter |-> splitter,
                              model |-> model,
                              child_splits |-> (parent :> MapSeq(parts, child))])]

\* the body shared by the two refiners, found being what the search for
\* the stem file returned
split_stem(F, D, job_id, parent, parts, splitter, model, not_found, failed, found, libs, nwritten) ==
  IF found = <<>> THEN [F |-> F, D |-> D, resp |-> Error(404, not_found, "")]
  ELSE refine(F, D, found[1], job_id, parent, parts, splitter, model, failed,
              libs, nwritten)

\* POST /api/split-vocals/<job_id>, after the search for vocals.mp3
split_vocals(F, D, job_id, found, libs, nwritten) ==
  split_stem(F, D, job_id, Lit.vocals, <<Lit.lead, Lit.backing>>,
             "vocal_separation", "spectral_analysis",
             "Vocals stem not found", "Vocal separation failed", found, libs, nwritten)

\* POST /api/split-drums/<job_id>, after the search for drums.mp3
\* and the check that child_stems is not empty
split_drums(F, D, job_id, found, libs, nwritten) ==
  LET checked(o) ==
        IF o.resp.status = 200 /\ o.resp.body.child_splits[Lit.drums] = <<>>
        THEN [o EXCEPT !.resp = Error(400, "No drum parts were created", "")]
        ELSE o
  IN  Bind(split_stem(F, D, job_id, Lit.drums,
                      <<Lit.kick, Lit.snare, Lit.hihat, Lit.cymbals>>,
                      "drum_separation", "htdemucs_6s",
                      "Drums stem not found", "Drum separation failed",
                      found, libs, nwritten),
           checked)

\* DELETE /api/cleanup/<job_id>: the upload folder afterwards
cleanup_job(U, job_id) == {f \in U : PathStem(f) # job_id}

(***************************************************************************)
(* add_stem                                                                *)
(***************************************************************************)
\* str.strip(), of blanks
RECURSIVE strip(_)
strip(s) ==
  IF s # <<>> /\ s[1] = " " THEN strip(Tail(s))
  ELSE IF s # <<>> /\ s[Len(s)] = " " THEN strip(SubSeq(s, 1, Len(s) - 1))
  ELSE s

stem_prefixes ==
  <<<<"s", "t", "e", "m", "_">>, <<"t", "r", "a", "c", "k", "_">>,
    <<"a", "u", "d", "i", "o", "_">>>>

stem_suffixes ==
  <<<<"_", "s", "t", "e", "m">>, <<"_", "t", "r", "a", "c", "k">>,
    <<"_", "a", "u", "d", "i", "o">>>>

\* for prefix in [...]: if stem_name.startswith(prefix): cut it
RECURSIVE cut_prefixes(_, _)
cut_prefixes(name, i) ==
  IF i > Len(stem_prefixes) THEN name
  ELSE IF StartsWith(name, stem_prefixes[i])
       THEN cut_prefixes(SubSeq(name, Len(stem_prefixes[i]) + 1, Len(name)), i + 1)
       ELSE cut_prefixes(name, i + 1)

\* for suffix in [...]: if stem_name.endswith(suffix): cut it
RECURSIVE cut_suffixes(_, _)
cut_suffixes(name, i) ==
  IF i > Len(stem_suffixes) THEN name
  ELSE IF Len(stem_suffixes[i]) <= Len(name)
          /\ SubSeq(name, Len(name) - Len(stem_suffixes[i]) + 1, Len(name))
               = stem_suffixes[i]
       THEN cut_suffixes(SubSeq(name, 1, Len(name) - Len(stem_suffixes[i])), i + 1)
       ELSE cut_suffixes(name, i + 1)

\* the stem name inferred from the filename of the upload
infer_stem_name(filename) ==
  LET parts == SplitSlash(filename)
  IN  cut_suffixes(cut_prefixes(lower(PathStem(parts[Len(parts)])), 1), 1)

\* os.path.join(base, s), s being a string that may hold separators: an
\* absolute s replaces base.  Of the absolute paths only the files of the
\* upload folder are known.
os_path_join(base, s) ==
  LET nonempty(name) == name # <<>> /\ name # Lit.curdir
      under == UPLOAD_FOLDER \o <<"/">>
      rest == SubSeq(s, Len(under) + 1, Len(s))
  IN  IF s # <<>> /\ s[1] = "/"
      THEN IF StartsWith(s, under) /\ rest # <<>> /\ Positions(rest, "/") = {}
           THEN <<UPLOAD_FOLDER, rest>>
           ELSE Nowhere
      ELSE base \o SelectSeq(SplitSlash(s), nonempty)

\* the project folder add_stem saves into: the first model folder that
\* holds the job, or separated/htdemucs/{job_id}, which it creates
project_folder(F, D, job_id) ==
  LET holds(mf) == exists(F, D, <<SEPARATED_FOLDER, mf, job_id>>)
      found == SelectSeq(model_folders, holds)
      default == <<SEPARATED_FOLDER, Lit.htdemucs, job_id>>
      above == makedirs(D, <<SEPARATED_FOLDER, Lit.htdemucs>>)
  IN  IF found # <<>>
      THEN [path |-> <<SEPARATED_FOLDER, found[1], job_id>>, D |-> D]
      ELSE [path |-> default, D |-> above \cup {realpath(above, default)}]

\* file.save(dst): the disk and the upload folder afterwards, and the file
\* written; saved is NoFile when open() raises
file_save(F, D, U, dst) ==
  LET open(t) ==
        IF t = Nowhere THEN [F |-> F, U |-> U, saved |-> t]
        ELSE IF t = <<>> \/ t \in D \/ (Len(t) > 1 /\ t[1] # UPLOAD_FOLDER
                                          /\ SubSeq(t, 1, Len(t) - 1) \notin D)
        THEN [F |-> F, U |-> U, saved |-> NoFile]
        ELSE IF t[1] = UPLOAD_FOLDER THEN [F |-> F, U |-> U \cup {t[2]}, saved |-> t]
        ELSE [F |-> F \cup {t}, U |-> U, saved |-> t]
  IN  Bind(realpath(D, dst), open)

\* POST /api/add-stem/<job_id>: [F, D, U, saved, resp], the disk and the
\* upload folder after the request, the file it wrote and the response.
\* has_file is whether the form carries a file, filename its name and
\* form_name the form value stem_name.
add_stem(F, D, U, job_id, has_file, filename, form_name) ==
  LET refuse(msg) ==
        [F |-> F, D |-> D, U |-> U, saved |-> NoFile, resp |-> Error(400, msg, "")]
      stem_name == IF strip(form_name) # <<>> THEN strip(form_name)
                   ELSE infer_stem_name(filename)
      store(project) ==
        LET ext == lower(splitext(filename)[2])
            stem_path == os_path_join(project.path, stem_name \o ext)
            written == file_save(F, project.D, U, stem_path)
        IN  [F |-> written.F, D |-> project.D, U |-> written.U,
             saved |-> written.saved,
             resp |-> IF written.saved = NoFile
                      THEN Error(500, "No such file or directory", "")
                      ELSE Ok([status |-> "success",
                               stem_name |-> stem_name,
                               url |-> stem_url(job_id, stem_name),
                               path |-> stem_path])]
  IN  IF ~has_file THEN refuse("No file provided")
      ELSE IF filename = <<>> THEN refuse("No file selected")
      ELSE IF ~allowed_file(filename) THEN refuse("Invalid file type")
      ELSE Bind(project_folder(F, D, job_id), store)

(***************************************************************************)
(* The audio of the refiners.  Sample values are whole numbers, AmpScale   *)
(* being full scale.  A transform has one column per frame; the drum       *)
(* refiner's columns hold a value per frequency bin.  The vocal refiner    *)
(* only selects whole columns, so its columns are kept as the frame's mono *)
(* value, and stft followed by istft gives the frames back; the spectral   *)
(* centroid of a frame, which librosa computes from the column, is an      *)
(* input.                                                                  *)
(***************************************************************************)
AmpScale == 2

\* librosa.load(drums_stem_path, sr=44100)
sr == 44100

\* librosa.stft(y) and librosa.fft_frequencies(sr=sr): n_fft is 2048, bin k
\* lies at k * sr / n_fft Hz, k in 0..n_fft/2
n_fft == 2048

\* the bins looked at: the first and the last, the bins next to every band
\* edge, and the bins of a 60 Hz and a 10 kHz tone
Bins == {0, 1, 3, 9, 10, 92, 93, 185, 186, 371, 372, 464, 928, 929, 1024}

drum_freq_ranges ==
  [kick |-> <<20, 200>>, snare |-> <<200, 2000>>, hihat |-> <<2000, 8000>>,
   cymbals |-> <<4000, 20000>>]

\* a mask that forgets the upper edge of the band
band_mask_open_above(range) ==
  [k \in Bins |-> range[1] * n_fft <= k * sr]

\* (freqs >= range[0]) & (freqs <= range[1])
band_mask(range) ==
  [k \in Bins |-> range[1] * n_fft <= k * sr /\ k * sr <= range[2] * n_fft]

\* stft * np.tile(mask[:, np.newaxis], (1, stft.shape[1]))
apply_mask(stft, mask) ==
  [t \in DOMAIN stft |-> [k \in Bins |-> IF mask[k] THEN stft[t][k] ELSE 0]]

\* the four masked transforms of split_drums
drum_bands(stft) ==
  [part \in DOMAIN drum_freq_ranges |-> apply_mask(stft, band_mask(drum_freq_ranges[part]))]

\* y of split_vocals: a mono file is loaded as one channel, which is
\* doubled
stereo(y) == IF Len(y) = 1 THEN <<y[1], y[1]>> ELSE y

RECURSIVE SumFrom(_, _)
SumFrom(x, i) == IF i > Len(x) THEN 0 ELSE x[i] + SumFrom(x, i + 1)

abs(v) == IF v < 0 THEN 0 - v ELSE v

\* np.abs(spectral_centroid - centroid_mean) < centroid_std * 0.7, in whole
\* numbers: with dev[i] = n * (centroid[i] - mean), the variance is
\* sum(dev^2) / n^3, and |dev[i]| / n < 0.7 * std is
\* 100 * n * dev[i]^2 < 49 * sum(dev^2)
lead_mask(spectral_centroid) ==
  LET n == Len(spectral_centroid)
      dev == [i \in 1..n |-> n * spectral_centroid[i] - SumFrom(spectral_centroid, 1)]
      squares == SumFrom([i \in 1..n |-> dev[i] * dev[i]], 1)
  IN  [i \in 1..n |-> 100 * n * dev[i] * dev[i] < 49 * squares]

\* the loop that zeroes the columns the mask does not select
mask_frames(stft, mask) == [i \in DOMAIN stft |-> IF mask[i] THEN stft[i] ELSE 0]

\* librosa.util.normalize: the samples over their peak, as the samples and
\* the divisor; a signal of zeros stays as it is
normalize(x) ==
  LET peak == Max({abs(x[i]) : i \in DOMAIN x} \cup {0})
  IN  [samples |-> x, over |-> IF peak = 0 THEN 1 ELSE peak]

\* the audio of split_vocals for the channels y and the centroids of the
\* frames; center, sides and the mono mix are kept doubled and the blends
\* twentyfold, so that /2, 0.7 and 0.3 stay whole
vocal_refiner(y, spectral_centroid) ==
  LET ch == stereo(y)
      center2 == [i \in DOMAIN ch[1] |-> ch[1][i] + ch[2][i]]
      sides2 == [i \in DOMAIN ch[1] |-> ch[1][i] - ch[2][i]]
      stft == center2
      lead == lead_mask(spectral_centroid)
      backing == [i \in DOMAIN lead |-> ~lead[i]]
      lead_stft == mask_frames(stft, lead)
      backing_stft == mask_frames(stft, backing)
  IN  [stft |-> stft,
       lead_mask |-> lead,
       backing_mask |-> backing,
       lead_stft |-> lead_stft,
       backing_stft |-> backing_stft,
       lead_final |-> normalize([i \in DOMAIN stft |-> 7 * center2[i] + 3 * lead_stft[i]]),
       backing_final |-> normalize([i \in DOMAIN stft |-> 7 * sides2[i] + 3 * backing_stft[i]])]

(***************************************************************************)
(* Bounds and inputs                                                       *)
(***************************************************************************)
\* the frames of a track
MaxFrames == 3

\* the bins that carry a tone in a drum track
MaxTones == 2

\* the stems added in a behaviour
MaxAdds == 1

\* the buffer units a pipe between the tool and the server holds
PipeCapacity == 2

\* the buffer units the tool writes to one of its streams
MaxOutput == 3

\* the layouts of earlier runs found together under separated/ at the start
MaxSeeds == 1

\* the separation runs of a behaviour
MaxRuns == 1

\* the stems a tool run may fail to produce
MaxMissing == 1

\* the threads of the server that handle requests at the same time
MaxWorkers == 2

\* the refinement runs of a behaviour with threads
MaxSplits == 2

\* what earlier runs of the server, of its older versions and of
\* separate_audio.py may have left under separated/, layout by layout
SeedLayouts ==
  LET h == <<SEPARATED_FOLDER, Lit.htdemucs, Lit.t1>>
      h6 == <<SEPARATED_FOLDER, Lit.htdemucs_6s, Lit.t1>>
      o == <<SEPARATED_FOLDER, Lit.old, Lit.t1>>
      flat == <<SEPARATED_FOLDER, Lit.t1>>
      vs == <<SEPARATED_FOLDER, Lit.vocal_splits, Lit.t1>>
      f12 == <<SEPARATED_FOLDER, Lit.htdemucs_ft, Lit.t12>>
  IN  {{Append(h, Lit.vocals \o Lit.mp3), Append(h, Lit.drums \o Lit.mp3)},
       {Append(h6, Lit.vocals \o Lit.wav), Append(h, Lit.vocals \o Lit.mp3)},
       {Append(h, Lit.vocals \o Lit.mp3), Append(h, Lit.vocals \o Lit.wav)},
       {Append(h, Lit.vocals \o Lit.mp3), Append(o, Lit.vocals \o Lit.mp3)},
       {Append(o, Lit.vocals \o Lit.mp3), Append(flat, Lit.vocals \o Lit.wav)},
       {Append(h, Lit.mixture \o Lit.mp3), Append(h6, Lit.mix \o Lit.wav)},
       {h \o <<Lit.vocals, Lit.lead \o Lit.wav>>, o \o <<Lit.vocals, Lit.lead \o Lit.wav>>},
       {Append(vs, Lit.lead \o Lit.wav), Append(h, Lit.vocals \o Lit.mp3)},
       {Append(h, Lit.vocals \o Lit.mp3), h \o <<Lit.vocals, Lit.lead \o Lit.mp3>>},
       {Append(f12, Lit.vocals \o Lit.mp3)}}

\* the files an earlier separation may have left, for the separation runs
PriorFiles ==
  {<<SEPARATED_FOLDER, Lit.htdemucs_6s, Lit.t1, Lit.vocals \o Lit.mp3>>,
   <<SEPARATED_FOLDER, Lit.htdemucs, Lit.t1, Lit.vocals \o Lit.mp3>>}

\* the filenames a caller may post
UploadNames ==
  {Lit.t1 \o Lit.mp3, Lit.t1 \o Lit.wav, Lit.t1,
   Lit.dotdot \o <<"/">> \o Lit.t1 \o Lit.wav}

StemPaths ==
  {Lit.vocals, Lit.mix, Lit.vocals \o <<"/">> \o Lit.lead,
   Lit.drums \o <<"/">> \o Lit.vocals}

\* the folders asked of load_project: the job folders on the disk, a file,
\* a path that does not exist and the empty path
LoadPaths(F, D) ==
  {p \in D : Len(p) >= 2 /\ p[Len(p)] \in JobIds}
    \cup {p \in F : p[Len(p)] = Lit.vocals \o Lit.mp3}
    \cup {<<SEPARATED_FOLDER, Lit.old, Lit.t12>>, <<>>}

\* the models asked of demucs: the three the server names, and another
\* model of the tool
DemucsModels == {Lit.htdemucs_6s, Lit.htdemucs_ft, Lit.htdemucs, Lit.mdx_extra}

SpleeterModels == {Lit.s4}

ExitCodes == {0, 1}

StreamTexts == {"", "error: out of memory"}

\* the stems a tool run may fail to produce: the first, a middle and the
\* last one of every model
Missable == {Lit.vocals, Lit.bass, Lit.other}

\* what a tool run may write: the expected stems but at most MaxMissing of
\* the missable ones, or nothing
ToolOutputs(expected) ==
  {SeqToSet(expected) \ S : S \in {T \in SUBSET Missable : Cardinality(T) <= MaxMissing}}
    \cup {{}}

(***************************************************************************)
(* The state machine                                                       *)
(***************************************************************************)
\* no separation tool was started
NoProcess == [at |-> "none"]

\* app.run serves every request on a thread of its own
Workers == 1..MaxWorkers

\* a thread that is not inside a refiner
Idle == [op |-> "idle"]

DiskOf(seed) ==
  /\ files = seed
  /\ dirs = UNION {makedirs({}, SubSeq(f, 1, Len(f) - 1)) : f \in seed}
              \cup {<<SEPARATED_FOLDER>>}

Start ==
  /\ uploads = {}
  /\ req = [op |-> "start"]
  /\ resp = [status |-> 0]
  /\ nruns = 0
  /\ writers = [w \in Workers |-> Idle]
  /\ partial = {}
  /\ proc = NoProcess

Init ==
  /\ \E seed \in SUBSET SeedLayouts :
       Cardinality(seed) <= MaxSeeds /\ DiskOf(UNION seed)
  /\ Start

\* a handler that makes sure of a model folder before it looks
Read_making_folder(r, answer) ==
  /\ req' = r
  /\ resp' = answer
  /\ dirs' = makedirs(dirs, <<SEPARATED_FOLDER, Lit.htdemucs>>)
  /\ UNCHANGED <<files, uploads, nruns, writers, partial, proc>>

\* a request that only reads
Read(r, answer) ==
  /\ req' = r
  /\ resp' = answer
  /\ UNCHANGED <<files, dirs, uploads, nruns, writers, partial, proc>>

\* a request that writes under separated/
Write(r, o) ==
  /\ req' = r
  /\ files' = o.F
  /\ dirs' = o.D
  /\ resp' = o.resp
  /\ UNCHANGED <<uploads, writers, partial, proc>>

ServeStem ==
  \E job_id \in JobIds, stem_path \in StemPaths :
    \E answer \in {serve_stem(files, dirs, uploads, job_id, stem_path, rev) :
                     rev \in BOOLEAN} :
      Read([op |-> "serve_stem", job_id |-> job_id, stem_path |-> stem_path], answer)

LoadProject ==
  \E folder_path \in LoadPaths(files, dirs) :
    \E answer \in {load_project(files, dirs, uploads, folder_path, rev) :
                     rev \in BOOLEAN} :
      Read([op |-> "load_project", folder_path |-> folder_path], answer)

\* POST /api/upload
UploadFile ==
  \E posted \in UploadNames, filename \in {secure_filename(n) : n \in UploadNames} :
    /\ filename = secure_filename(posted)
    /\ req' = [op |-> "upload_file", filename |-> posted]
    /\ IF allowed_file(posted)
       THEN /\ uploads' = uploads \cup {filename}
            /\ resp' = Ok([job_id |-> PathStem(filename), filename |-> filename,
                           file_path |-> <<UPLOAD_FOLDER, filename>>])
       ELSE /\ uploads' = uploads
            /\ resp' = Error(400, "Invalid file type", "")
    /\ UNCHANGED <<files, dirs, nruns, writers, partial, proc>>

CleanupJob ==
  \E job_id \in JobIds :
    /\ req' = [op |-> "cleanup_job", job_id |-> job_id]
    /\ uploads' = cleanup_job(uploads, job_id)
    /\ resp' = Ok([status |-> "success"])
    /\ UNCHANGED <<files, dirs, nruns, writers, partial, proc>>

\* the refiners: the search finds the stem in a song folder or not, the
\* audio libraries import or not, and the parts are written up to an
\* exception, if there is one
SplitVocals ==
  \E job_id \in JobIds :
    \E found \in {find_stem(files, dirs, job_id, Lit.vocals \o Lit.mp3, rev) :
                    rev \in BOOLEAN} :
      \E libs \in IF found = <<>> THEN {TRUE} ELSE BOOLEAN :
        \E nwritten \in IF libs /\ found # <<>> THEN 0..2 ELSE {2} :
          /\ Write([op |-> "split_vocals", job_id |-> job_id, libs |-> libs,
                    nwritten |-> nwritten],
                   split_vocals(files, dirs, job_id, found, libs, nwritten))
          /\ UNCHANGED nruns

SplitDrums ==
  \E job_id \in JobIds :
    \E found \in {find_stem(files, dirs, job_id, Lit.drums \o Lit.mp3, rev) :
                    rev \in BOOLEAN} :
      \E libs \in IF found = <<>> THEN {TRUE} ELSE BOOLEAN :
        \E nwritten \in IF libs /\ found # <<>> THEN 0..4 ELSE {4} :
          /\ Write([op |-> "split_drums", job_id |-> job_id, libs |-> libs,
                    nwritten |-> nwritten],
                   split_drums(files, dirs, job_id, found, libs, nwritten))
          /\ UNCHANGED nruns

\* separate_audio when no uploaded file matches the job, or the splitter is
\* not available or not implemented: no tool runs
SeparateRefused ==
  \E job_id \in JobIds, splitter \in {"demucs", "spleeter", "mdx23"} :
    \E o \in {separate_audio(files, dirs, uploads, job_id, splitter, Lit.htdemucs,
                              avail, rev, 0, "", "", {}) :
                 avail \in {a \in {{}, {splitter}} :
                              \/ uploaded_matches(uploads, job_id, FALSE) = <<>>
                              \/ a = {}
                              \/ splitter = "mdx23"},
                 rev \in BOOLEAN} :
      /\ Write([op |-> "separate_audio", job_id |-> job_id, splitter |-> splitter,
                model |-> Lit.htdemucs, ran |-> FALSE, rc |-> 0, stderr |-> ""], o)
      /\ UNCHANGED nruns

\* separate_audio with a tool run: the tool exits with rc having printed
\* stdout and stderr, and has written the stems out when it exits with 0
SeparateAudio ==
  /\ nruns < MaxRuns
  /\ \E job_id \in JobIds :
       /\ uploaded_matches(uploads, job_id, FALSE) # <<>>
       /\ \E splitter \in {"demucs", "spleeter"}, rc \in ExitCodes,
             stderr \in StreamTexts :
            \E model \in IF splitter = "spleeter" THEN SpleeterModels ELSE DemucsModels :
              \E out \in IF rc # 0 THEN {{}}
                          ELSE ToolOutputs(IF splitter = "spleeter"
                                           THEN spleeter_expected(model)
                                           ELSE demucs_expected(model)) :
                \E o \in {separate_audio(files, dirs, uploads, job_id, splitter, model,
                                          {splitter}, rev, rc, stdout, stderr, out) :
                             rev \in BOOLEAN, stdout \in StreamTexts} :
                  Write([op |-> "separate_audio", job_id |-> job_id,
                         splitter |-> splitter, model |-> model, ran |-> TRUE,
                         rc |-> rc, stderr |-> stderr], o)
  /\ nruns' = nruns + 1

\* what the refiner op is named after, and the parts it writes
parent_of(op) == IF op = "split_vocals" THEN Lit.vocals ELSE Lit.drums

parts_of(op) ==
  IF op = "split_vocals" THEN <<Lit.lead, Lit.backing>>
  ELSE <<Lit.kick, Lit.snare, Lit.hihat, Lit.cymbals>>

\* the file the run wr writes next
part_path(wr) ==
  wr.song_folder \o <<parent_of(wr.op), parts_of(wr.op)[wr.done + 1] \o Lit.wav>>

\* the answer of the refiner op for the stem found, when the libraries
\* import (libs) and nwritten parts are written
refiner_answer(F, D, op, job_id, found, libs, nwritten) ==
  IF op = "split_vocals"
  THEN split_vocals(F, D, job_id, found, libs, nwritten).resp
  ELSE split_drums(F, D, job_id, found, libs, nwritten).resp

\* a thread enters a refiner: it searches the stem, answers 404 when there
\* is none, and else creates the split directory and goes on to the audio
BeginSplit ==
  /\ nruns < MaxSplits
  /\ nruns' = nruns + 1
  /\ \E w \in Workers, job_id \in JobIds, op \in {"split_vocals", "split_drums"} :
       /\ writers[w] = Idle
       /\ \E found \in {find_stem(files, dirs, job_id, parent_of(op) \o Lit.mp3, rev) :
                          rev \in BOOLEAN} :
            IF found = <<>>
            THEN /\ req' = [op |-> op, job_id |-> job_id, libs |-> TRUE,
                            nwritten |-> Len(parts_of(op))]
                 /\ resp' = refiner_answer(files, dirs, op, job_id, found, TRUE,
                                           Len(parts_of(op)))
                 /\ UNCHANGED <<files, dirs, uploads, writers, partial, proc>>
            ELSE /\ dirs' = makedirs(dirs, Append(found[1], parent_of(op)))
                 /\ writers' = [writers EXCEPT ![w] =
                                  [op |-> op, job_id |-> job_id, song_folder |-> found[1],
                                   done |-> 0, open |-> FALSE]]
                 /\ UNCHANGED <<files, uploads, req, resp, partial, proc>>

\* sf.write opens the file of the next part: the file is there, without
\* its samples
OpenPart ==
  \E w \in Workers :
    /\ writers[w] # Idle
    /\ ~writers[w].open
    /\ writers[w].done < Len(parts_of(writers[w].op))
    /\ files' = files \cup {part_path(writers[w])}
    /\ partial' = partial \cup {part_path(writers[w])}
    /\ writers' = [writers EXCEPT ![w].open = TRUE]
    /\ UNCHANGED <<dirs, uploads, req, resp, nruns, proc>>

\* sf.write returns: the file is complete, unless another thread is still
\* writing it
ClosePart ==
  \E w \in Workers :
    /\ writers[w] # Idle
    /\ writers[w].open
    /\ partial' = partial \
                    ({part_path(writers[w])} \
                       {part_path(writers[v]) :
                          v \in {u \in Workers \ {w} : writers[u] # Idle /\ writers[u].open}})
    /\ writers' = [writers EXCEPT ![w].open = FALSE, ![w].done = @ + 1]
    /\ UNCHANGED <<files, dirs, uploads, req, resp, nruns, proc>>

\* all the parts are written: the refiner answers with its manifest
EndSplit ==
  \E w \in Workers :
    /\ writers[w] # Idle
    /\ writers[w].done = Len(parts_of(writers[w].op))
    /\ req' = [op |-> writers[w].op, job_id |-> writers[w].job_id, libs |-> TRUE,
               nwritten |-> writers[w].done]
    /\ resp' = refiner_answer(files, dirs, writers[w].op, writers[w].job_id,
                              <<writers[w].song_folder>>, TRUE, writers[w].done)
    /\ writers' = [writers EXCEPT ![w] = Idle]
    /\ UNCHANGED <<files, dirs, uploads, nruns, partial, proc>>

\* an exception inside the try block: the import of the libraries fails
\* before anything is written, or the audio code or sf.write raises; the
\* refiner answers with the error, and the file it had open stays as it is
FailSplit ==
  \E w \in Workers :
    /\ writers[w] # Idle
    /\ writers[w].done < Len(parts_of(writers[w].op))
    /\ \E libs \in IF writers[w].done = 0 /\ ~writers[w].open THEN BOOLEAN ELSE {TRUE} :
         /\ req' = [op |-> writers[w].op, job_id |-> writers[w].job_id, libs |-> libs,
                    nwritten |-> writers[w].done]
         /\ resp' = refiner_answer(files, dirs, writers[w].op, writers[w].job_id,
                                   <<writers[w].song_folder>>, libs, writers[w].done)
    /\ writers' = [writers EXCEPT ![w] = Idle]
    /\ UNCHANGED <<files, dirs, uploads, nruns, partial, proc>>

Next ==
  \/ ServeStem
  \/ LoadProject
  \/ UploadFile
  \/ CleanupJob
  \/ SplitVocals
  \/ SplitDrums

Spec == Init /\ [][Next]_vars

\* the separation runs, on what earlier separations left
InitSep ==
  /\ \E seed \in SUBSET PriorFiles : DiskOf(seed)
  /\ Start

NextSep ==
  \/ UploadFile
  \/ CleanupJob
  \/ SeparateRefused
  \/ SeparateAudio

SpecSep == InitSep /\ [][NextSep]_vars

\* what the disk may hold under separated/ and beside it
RootFiles ==
  {<<SEPARATED_FOLDER, Lit.vocals \o Lit.mp3>>,
   <<SEPARATED_FOLDER, Lit.htdemucs, Lit.t1, Lit.vocals \o Lit.mp3>>}

OutsideFiles ==
  {<<Lit.vocals \o Lit.mp3>>,
   <<Lit.t1, Lit.vocals \o Lit.mp3>>}

\* the job ids and stem paths a caller may put in the URL: names, '..'
\* and '.'
CallerJobIds == {Lit.t1, Lit.dotdot, Lit.curdir}

CallerStemPaths ==
  {Lit.vocals, Lit.mix,
   Lit.dotdot \o <<"/">> \o Lit.vocals,
   Lit.vocals \o <<"/">> \o Lit.dotdot}

\* the paths a caller may post: the directories of the disk, a file, and
\* a path that does not exist
CallerPaths(F, D) ==
  D \cup {p \in F : Len(p) = 1} \cup {<<Lit.old>>, <<>>}

ServeAnyStem ==
  \E job_id \in CallerJobIds, stem_path \in CallerStemPaths :
    \E answer \in {serve_stem(files, dirs, uploads, job_id, stem_path, rev) :
                     rev \in BOOLEAN} :
      Read([op |-> "serve_stem", job_id |-> job_id, stem_path |-> stem_path], answer)

LoadAnyProject ==
  \E folder_path \in CallerPaths(files, dirs) :
    \E answer \in {load_project(files, dirs, uploads, folder_path, rev) :
                     rev \in BOOLEAN} :
      Read([op |-> "load_project", folder_path |-> folder_path], answer)

BrowseFolders ==
  \E base_path \in CallerPaths(files, dirs) :
    \E answer \in {browse_folders(files, dirs, base_path, rev, newest_last) :
                     rev \in BOOLEAN, newest_last \in BOOLEAN} :
      Read([op |-> "browse_folders", base_path |-> base_path], answer)

\* the resolver and the loaders on a disk with files beside separated/
InitConf ==
  /\ \E seed \in SUBSET (RootFiles \cup OutsideFiles) : DiskOf(seed)
  /\ Start

NextConf ==
  \/ ServeAnyStem
  \/ LoadAnyProject
  \/ BrowseFolders
  \/ UploadFile

SpecConf == InitConf /\ [][NextConf]_vars

\* what the disk may hold when a stem is added, and the job ids, form
\* values stem_name and filenames a caller may post
AddInputs ==
  [seeds |->
     {<<SEPARATED_FOLDER, Lit.htdemucs, Lit.t1, Lit.vocals \o Lit.mp3>>,
      <<SEPARATED_FOLDER, Lit.htdemucs_ft, Lit.t1, Lit.vocals, Lit.lead \o Lit.wav>>},
   job_ids |-> {Lit.t1, Lit.dotdot},
   form_names |->
     {<<>>,
      Lit.vocals,
      <<" ">> \o Lit.mix,
      Lit.dotdot \o <<"/">> \o Lit.vocals,
      Lit.vocals \o <<"/">> \o Lit.lead,
      UPLOAD_FOLDER \o <<"/">> \o Lit.t1},
   file_names |->
     {<<>>,
      Lit.vocals \o Lit.mp3,
      <<"s", "t", "e", "m", "_">> \o Lit.bass \o <<".", "W", "A", "V">>,
      Lit.vocals \o <<".", "a", "i", "f", "f">>,
      Lit.vocals}]

\* POST /api/add-stem/<job_id>
AddStem ==
  /\ nruns < MaxAdds
  /\ \E job_id \in AddInputs.job_ids, has_file \in BOOLEAN,
        form_name \in AddInputs.form_names :
      \E filename \in IF has_file THEN AddInputs.file_names ELSE {<<>>} :
       \E o \in {add_stem(files, dirs, uploads, job_id, has_file, filename, form_name)} :
         /\ req' = [op |-> "add_stem", job_id |-> job_id, has_file |-> has_file,
                    filename |-> filename, stem_name |-> form_name,
                    saved |-> o.saved]
         /\ files' = o.F
         /\ dirs' = o.D
         /\ uploads' = o.U
         /\ resp' = o.resp
  /\ nruns' = nruns + 1
  /\ UNCHANGED <<writers, partial, proc>>

\* GET /api/stems/<job_id>/<path:stem_path> for the stem names that may
\* have been added
ServeAddedStem ==
  \E job_id \in AddInputs.job_ids,
     stem_path \in {strip(n) : n \in {m \in AddInputs.form_names :
                                        m # <<>> /\ m[1] # "/"}} \cup {Lit.bass} :
    \E answer \in {serve_stem(files, dirs, uploads, job_id, stem_path, rev) :
                     rev \in BOOLEAN} :
      Read([op |-> "serve_stem", job_id |-> job_id, stem_path |-> stem_path], answer)

\* stems added to the projects earlier runs left, and served
InitAdd ==
  /\ \E seed \in SUBSET AddInputs.seeds : DiskOf(seed)
  /\ Start

NextAdd ==
  \/ AddStem
  \/ ServeAddedStem

SpecAdd == InitAdd /\ [][NextAdd]_vars

(***************************************************************************)
(* The invocation of the separation tools.  subprocess.Popen gives the     *)
(* tool a pipe for stdout and a pipe for stderr; a pipe holds PipeCapacity *)
(* units, a write to a full pipe blocks, and a read of an empty pipe       *)
(* blocks until the tool has closed it, which it does when it exits.  The  *)
(* tool writes to_out units to stdout and to_err units to stderr, in an    *)
(* order of its own, and then exits with status rc.                        *)
(***************************************************************************)
\* process = subprocess.Popen(cmd, stdout=PIPE, stderr=PIPE, text=True)
Popen ==
  /\ proc = NoProcess
  /\ \E tool \in {"demucs", "spleeter"}, to_out \in 0..MaxOutput,
        to_err \in 0..MaxOutput, rc \in ExitCodes :
       proc' = [at |-> "for line in process.stdout", tool |-> tool,
                to_out |-> to_out, to_err |-> to_err, out |-> 0, err |-> 0,
                exited |-> FALSE, rc |-> rc]
  /\ UNCHANGED <<files, dirs, uploads, req, resp, nruns, writers, partial>>

\* the tool writes a unit to stdout, when the pipe has room
ToolWritesStdout ==
  /\ proc # NoProcess
  /\ ~proc.exited /\ proc.to_out > 0 /\ proc.out < PipeCapacity
  /\ proc' = [proc EXCEPT !.to_out = @ - 1, !.out = @ + 1]
  /\ UNCHANGED <<files, dirs, uploads, req, resp, nruns, writers, partial>>

\* the tool writes a unit to stderr, when the pipe has room
ToolWritesStderr ==
  /\ proc # NoProcess
  /\ ~proc.exited /\ proc.to_err > 0 /\ proc.err < PipeCapacity
  /\ proc' = [proc EXCEPT !.to_err = @ - 1, !.err = @ + 1]
  /\ UNCHANGED <<files, dirs, uploads, req, resp, nruns, writers, partial>>

\* the tool has written everything and exits, which closes its pipes
ToolExits ==
  /\ proc # NoProcess
  /\ ~proc.exited /\ proc.to_out = 0 /\ proc.to_err = 0
  /\ proc' = [proc EXCEPT !.exited = TRUE]
  /\ UNCHANGED <<files, dirs, uploads, req, resp, nruns, writers, partial>>

\* for line in process.stdout: a line is there
ReadLine ==
  /\ proc # NoProcess
  /\ proc.at = "for line in process.stdout" /\ proc.out > 0
  /\ proc' = [proc EXCEPT !.out = @ - 1]
  /\ UNCHANGED <<files, dirs, uploads, req, resp, nruns, writers, partial>>

\* for line in process.stdout: the pipe is empty and closed, the loop ends
EndOfStdout ==
  /\ proc # NoProcess
  /\ proc.at = "for line in process.stdout" /\ proc.out = 0 /\ proc.exited
  /\ proc' = [proc EXCEPT !.at = "process.wait()"]
  /\ UNCHANGED <<files, dirs, uploads, req, resp, nruns, writers, partial>>

\* return_code = process.wait(), and the test of the return code
Wait ==
  /\ proc # NoProcess
  /\ proc.at = "process.wait()" /\ proc.exited
  /\ proc' = [proc EXCEPT !.at = IF proc.rc # 0 THEN "process.stderr.read()"
                                ELSE "returned"]
  /\ UNCHANGED <<files, dirs, uploads, req, resp, nruns, writers, partial>>

\* stderr = process.stderr.read(); raise Exception
ReadStderr ==
  /\ proc # NoProcess
  /\ proc.at = "process.stderr.read()"
  /\ proc' = [proc EXCEPT !.err = 0, !.at = "raised"]
  /\ UNCHANGED <<files, dirs, uploads, req, resp, nruns, writers, partial>>

InitPipe ==
  /\ DiskOf({})
  /\ Start

NextPipe ==
  \/ Popen
  \/ ToolWritesStdout
  \/ ToolWritesStderr
  \/ ToolExits
  \/ ReadLine
  \/ EndOfStdout
  \/ Wait
  \/ ReadStderr

\* the operating system lets the tool and the invoking thread run whenever
\* they are not blocked
SpecPipe ==
  /\ InitPipe
  /\ [][NextPipe]_vars
  /\ WF_vars(ToolWritesStdout)
  /\ WF_vars(ToolWritesStderr)
  /\ WF_vars(ToolExits)
  /\ WF_vars(ReadLine)
  /\ WF_vars(EndOfStdout)
  /\ WF_vars(Wait)
  /\ WF_vars(ReadStderr)

\* the sample values and the centroids of a frame
Amps == {0, 1, 0 - 2}

Centroids == {1, 2, 3}

\* the tracks given to the vocal refiner: a mono file, or a stereo file
\* whose right channel is the left one, silent, or the left one inverted
VocalTracks ==
  UNION {{<<left>> : left \in [1..n -> Amps]}
           \cup {<<left, [i \in 1..n |-> pan * left[i]]>> :
                    left \in [1..n -> Amps], pan \in {1, 0, 0 - 1}} :
         n \in 1..MaxFrames}

\* the transforms given to the drum refiner: tones in up to MaxTones bins,
\* over one or two frames
DrumTransforms ==
  {[t \in 1..nframes |-> [k \in Bins |-> IF k \in tones THEN t * level[k] ELSE 0]] :
     nframes \in 1..2,
     tones \in {T \in SUBSET Bins : Cardinality(T) <= MaxTones},
     level \in [Bins -> {1}] \cup [Bins -> {0 - 2}]}

\* the audio code of split_vocals on a loaded track
InitVocal ==
  /\ \E y \in VocalTracks :
       \E spectral_centroid \in [1..Len(y[1]) -> Centroids] :
         req = [op |-> "vocal_audio", y |-> y, spectral_centroid |-> spectral_centroid]
  /\ resp = [status |-> 0]
  /\ files = {} /\ dirs = {} /\ uploads = {} /\ nruns = 0
  /\ writers = [w \in Workers |-> Idle]
  /\ partial = {}
  /\ proc = NoProcess

VocalAudio ==
  /\ req.op = "vocal_audio"
  /\ resp.status = 0
  /\ resp' = [status |-> 200, audio |-> vocal_refiner(req.y, req.spectral_centroid)]
  /\ UNCHANGED <<files, dirs, uploads, req, nruns, writers, partial, proc>>

SpecVocal == InitVocal /\ [][VocalAudio]_vars

\* the audio code of split_drums on a transform
InitDrum ==
  /\ \E stft \in DrumTransforms : req = [op |-> "drum_audio", stft |-> stft]
  /\ resp = [status |-> 0]
  /\ files = {} /\ dirs = {} /\ uploads = {} /\ nruns = 0
  /\ writers = [w \in Workers |-> Idle]
  /\ partial = {}
  /\ proc = NoProcess

DrumAudio ==
  /\ req.op = "drum_audio"
  /\ resp.status = 0
  /\ resp' = [status |-> 200, bands |-> drum_bands(req.stft)]
  /\ UNCHANGED <<files, dirs, uploads, req, nruns, writers, partial, proc>>

SpecDrum == InitDrum /\ [][DrumAudio]_vars

\* the refiners and load_project on the threads of the server, on a song
\* folder that holds the stems to refine
InitConc ==
  /\ \E seed \in {s \in SeedLayouts : \E f \in s : f[Len(f)] = Lit.drums \o Lit.mp3} :
       DiskOf(seed)
  /\ Start

NextConc ==
  \/ BeginSplit
  \/ OpenPart
  \/ ClosePart
  \/ EndSplit
  \/ FailSplit
  \/ LoadProject

SpecConc == InitConc /\ [][NextConc]_vars

(***************************************************************************)
(* Properties of serve_stem                                                *)
(***************************************************************************)
\* the last request was serve_stem for a top-level stem other than the mix
ServedTopLevel ==
  /\ req.op = "serve_stem"
  /\ ~IsSubstr(<<"/">>, req.stem_path)
  /\ req.stem_path # Lit.mix

\* the canonical directories of the job that hold a file for the stem, in
\* the fixed order of the model folders
HoldingCanonical(job_id, stem_name) ==
  LET holds(mf) ==
        \E ext \in SeqToSet(extensions) :
          <<SEPARATED_FOLDER, mf, job_id, stem_name \o ext>> \in files
  IN  SelectSeq(model_folders, holds)

\* the directory of a file path
DirOf(path) == SubSeq(path, 1, Len(path) - 1)

\* C1: canonical precedence in serve_stem. When a canonical directory
\* separated/{modelFolder}/{jobId}/ holds a file for the requested top-level
\* stem, the file served is a file of that stem in the first such directory
\* in the order htdemucs_6s, htdemucs_ft, htdemucs, spleeter; a file outside
\* the canonical directories is served only when none of them holds the stem.
C1_CanonicalPrecedence ==
  ServedTopLevel =>
    LET holding == HoldingCanonical(req.job_id, req.stem_path)
    IN  /\ holding # <<>> =>
             /\ resp.status = 200
             /\ resp.file \in files
             /\ DirOf(resp.file) = <<SEPARATED_FOLDER, holding[1], req.job_id>>
             /\ splitext(resp.file[Len(resp.file)])[1] = req.stem_path
        /\ (resp.status = 200 /\ DirOf(resp.file)[2] \notin SeqToSet(model_folders))
             => holding = <<>>

\* a canonical file was served although a directory reached only by the
\* generic scan holds the stem too
C1_Witness ==
  /\ ServedTopLevel
  /\ resp.status = 200
  /\ HoldingCanonical(req.job_id, req.stem_path) # <<>>
  /\ \E f \in files :
       /\ Len(f) = 4
       /\ f[2] \notin SeqToSet(model_folders)
       /\ f[3] = req.job_id
       /\ splitext(f[4])[1] = req.stem_path

\* the extensions with which the file name exists in the directory, in the
\* fixed order
ExistingExtensions(dir, name) ==
  LET there(ext) == Append(dir, name \o ext) \in files
  IN  SelectSeq(extensions, there)

\* the file has the first of the extensions its name exists with
HasFirstExtension(path) ==
  LET item == path[Len(path)]
      exts == ExistingExtensions(DirOf(path), splitext(item)[1])
  IN  exts # <<>> /\ splitext(item)[2] = exts[1]

\* the last request was load_project and it returned a manifest
Loaded == req.op = "load_project" /\ resp.status = 200

\* C2: extension precedence. In serve_stem and in load_project, when the
\* files of a stem exist with several extensions the resolved file is the
\* first existing one in the order mp3, wav, flac, m4a, ogg.
C2_ExtensionPrecedence ==
  /\ (req.op = "serve_stem" /\ resp.status = 200 /\ resp.file[1] = SEPARATED_FOLDER)
       => HasFirstExtension(resp.file)
  /\ Loaded =>
       \A i \in DOMAIN resp.body.stems : HasFirstExtension(resp.body.stems[i].path)

(***************************************************************************)
(* The mix                                                                 *)
(***************************************************************************)
\* the uploaded files whose filename stem is the job id, as paths
UploadedMix(job_id) ==
  {<<UPLOAD_FOLDER, f>> : f \in {u \in uploads : PathStem(u) = job_id}}

\* the files with one of the names in one of the directories
NamedIn(folders, names) ==
  {Append(d, n) : d \in folders, n \in names} \cap files

\* got, the resolved mix as <<>> or <<path>>, follows the order: the
\* upload, then a tool-produced mixture file, then a legacy mix variant
ResolvesMix(job_id, folders, got) ==
  LET mixtures == NamedIn(folders, {Lit.mixture \o Lit.mp3})
      variants == NamedIn(folders, {Lit.mix \o Lit.wav, Lit.mix \o Lit.flac})
  IN  IF UploadedMix(job_id) # {} THEN got # <<>> /\ got[1] \in UploadedMix(job_id)
      ELSE IF mixtures # {} THEN got # <<>> /\ got[1] \in mixtures
      ELSE variants # {} => got # <<>> /\ got[1] \in variants

\* C3: mix resolution order. The mix of a job resolves to the uploaded file
\* whose filename stem is the job id whenever there is one, only otherwise
\* to a tool-produced mixture file and only when neither exists to a legacy
\* mix variant, in serve_stem and in the mix entry of the manifests of
\* separate_audio and load_project.
C3_MixResolutionOrder ==
  /\ (req.op = "serve_stem" /\ req.stem_path = Lit.mix) =>
       ResolvesMix(req.job_id,
                   {<<SEPARATED_FOLDER, mf, req.job_id>> : mf \in SeqToSet(model_folders)},
                   IF resp.status = 200 THEN <<resp.file>> ELSE <<>>)
  /\ Loaded =>
       ResolvesMix(resp.body.job_id, {resp.body.output_dir},
                   [i \in DOMAIN resp.body.mix |-> resp.body.mix[i].path])
  /\ (req.op = "separate_audio" /\ resp.status = 200) =>
       ResolvesMix(resp.body.job_id, {resp.body.output_dir},
                   [i \in DOMAIN resp.body.mix |-> resp.body.mix[i].path])

(***************************************************************************)
(* Child splits in serve_stem                                              *)
(***************************************************************************)
\* the last request was serve_stem for a child split {parent}/{child}
ServedChild ==
  /\ req.op = "serve_stem"
  /\ Len(SplitSlash(req.stem_path)) = 2

\* the files of the child in the directory
ChildFiles(dir, child) ==
  {f \in files : DirOf(f) = dir /\ splitext(f[Len(f)])[1] = child}

\* the files of the child in the subdirectory named after the parent
\* directly under a canonical directory of the job
CanonicalChildFiles(job_id, parent, child) ==
  UNION {ChildFiles(<<SEPARATED_FOLDER, mf, job_id, parent>>, child) :
           mf \in SeqToSet(model_folders)}

\* the files of the child in the legacy sibling directory of the parent
LegacyChildFiles(job_id, parent, child) ==
  IF parent = Lit.vocals
  THEN ChildFiles(<<SEPARATED_FOLDER, Lit.vocal_splits, job_id>>, child)
  ELSE IF parent = Lit.drums
  THEN ChildFiles(<<SEPARATED_FOLDER, Lit.drum_splits, job_id>>, child)
  ELSE {}

\* the files of the child that a recursive scan for {..jobId..}/{parent}/
\* finds
ScannedChildFiles(job_id, parent, child) ==
  {f \in files :
     /\ Len(f) >= 3
     /\ f[Len(f) - 1] = parent
     /\ splitext(f[Len(f)])[1] = child
     /\ IsSubstr(job_id, PathStr(SubSeq(f, 1, Len(f) - 2)))}

\* C4: child-split resolution order in serve_stem. A child file in the
\* subdirectory named after the parent directly under the job's canonical
\* directory is served in preference to one found by the generic recursive
\* scan, and a file of the legacy sibling directories is served only when
\* neither of the two finds the child.
C4_ChildSplitOrder ==
  ServedChild =>
    LET parent == SplitSlash(req.stem_path)[1]
        child == SplitSlash(req.stem_path)[2]
    IN  /\ CanonicalChildFiles(req.job_id, parent, child) # {} =>
             /\ resp.status = 200
             /\ resp.file \in CanonicalChildFiles(req.job_id, parent, child)
        /\ (resp.status = 200
              /\ resp.file \in LegacyChildFiles(req.job_id, parent, child)) =>
             ScannedChildFiles(req.job_id, parent, child) = {}

(***************************************************************************)
(* Properties of the separation runs                                       *)
(***************************************************************************)
\* the last request was separate_audio and the tool ran and has exited
ToolExited == req.op = "separate_audio" /\ req.ran

\* the stems the model is expected to produce, and the extension of the
\* files
ExpectedStems ==
  IF req.splitter = "spleeter" THEN spleeter_expected(req.model)
  ELSE demucs_expected(req.model)

OutputExtension == IF req.splitter = "spleeter" THEN Lit.wav ELSE Lit.mp3

\* the expected stems whose output file exists in the directory, in the
\* model's order
ProducedStems(output_dir) ==
  LET there(st) == Append(output_dir, st \o OutputExtension) \in files
  IN  SelectSeq(ExpectedStems, there)

OutputDirs(job_id) ==
  {DirOf(f) : f \in {g \in files : g[1] = SEPARATED_FOLDER /\ g[Len(g) - 1] = job_id}}

\* C6: JobNotFound. For demucs and for spleeter, when after the tool has
\* exited no output directory of the job exists under any layout, the
\* request reports a failure and never a manifest with status success.
C6_JobNotFound ==
  (ToolExited /\ OutputDirs(req.job_id) = {}) => resp.status # 200

\* C7: the invoker's control depends on the exit status alone. Whatever the
\* tool printed, the invoker goes on to scan the outputs exactly when the
\* exit status is 0, and a non-zero exit status yields the error response
\* 500 carrying the tool's stderr text, never a success manifest.
C7_ExitStatusDecides ==
  ToolExited =>
    LET scanned == \/ resp.status = 200
                   \/ /\ resp.status = 500
                      /\ resp.body.error = <<"Output directory not found", "">>
        failed == /\ resp.status = 500
                  /\ resp.body.error \in {<<"Separation failed: ", req.stderr>>,
                                          <<"Spleeter separation failed: ", req.stderr>>}
    IN  /\ scanned <=> req.rc = 0
        /\ req.rc # 0 => failed

\* a run that exited with a non-zero status and text on its error stream
C7_Witness ==
  /\ ToolExited
  /\ req.rc # 0
  /\ req.stderr # ""
  /\ resp.status = 500

(***************************************************************************)
(* Properties of the manifests                                             *)
(***************************************************************************)
\* the last request returned a manifest
ManifestReturned ==
  /\ req.op \in {"separate_audio", "split_vocals", "split_drums", "load_project"}
  /\ resp.status = 200

\* the stem entries of a manifest
StemEntries(m) ==
  IF "stems" \in DOMAIN m THEN {m.stems[i] : i \in DOMAIN m.stems} ELSE {}

\* the child-split entries of a manifest
ChildEntries(m) ==
  UNION {{m.child_splits[k][i] : i \in DOMAIN m.child_splits[k]} :
           k \in DOMAIN m.child_splits}

\* the URL is routed to serve_stem, which sends the file at the path
\* whatever the order of the directory listings
Serves(url, path) ==
  /\ route_stem(url) # <<>>
  /\ \A rev \in BOOLEAN :
       serve_stem(files, dirs, uploads, route_stem(url)[1], route_stem(url)[2], rev)
         = [status |-> 200, file |-> path]

\* C8: URL/file round trip. For every manifest of separate_audio,
\* split_vocals, split_drums or load_project and every stem or child-split
\* entry of it, serve_stem on the same disk resolves the entry's url to
\* exactly the file at the entry's path.
C8_UrlFileRoundTrip ==
  ManifestReturned =>
    \A e \in StemEntries(resp.body) \cup ChildEntries(resp.body) : Serves(e.url, e.path)

\* the file paths the entries of a manifest claim, one for each entry
ClaimedPaths(m) ==
  LET children(k) == [i \in DOMAIN m.child_splits[k] |-> m.child_splits[k][i].path]
      RECURSIVE all(_)
      all(keys) ==
        IF keys = {} THEN <<>>
        ELSE LET k == CHOOSE x \in keys : TRUE
             IN  children(k) \o all(keys \ {k})
  IN  [i \in DOMAIN m.stems |-> m.stems[i].path]
      \o [i \in DOMAIN m.mix |-> m.mix[i].path]
      \o all(DOMAIN m.child_splits)

\* C9: no two entities claim the same file path. In every manifest of
\* load_project or separate_audio no file path appears in more than one
\* entry among the stems, the mix and the child_splits lists.
C9_NoSharedPath ==
  (req.op \in {"load_project", "separate_audio"} /\ resp.status = 200) =>
    LET paths == ClaimedPaths(resp.body)
    IN  \A i, j \in DOMAIN paths : paths[i] = paths[j] => i = j

\* C10: idempotence. Resolving the same job again, load_project on the same
\* folder or serve_stem on the same job id and stem path, with no change to
\* the disk in between, yields the same result, whatever the order in which
\* the directory listings enumerate the entries.
C10_Idempotence ==
  [][(/\ req.op \in {"load_project", "serve_stem"}
      /\ req' = req
      /\ files' = files /\ dirs' = dirs /\ uploads' = uploads)
       => resp' = resp]_vars

(***************************************************************************)
(* Frame of the resolver, manifest shape, refinement results               *)
(***************************************************************************)
\* C11: resolution is side-effect-free: a serve_stem or load_project
\* request leaves every file, directory and upload as it was, whatever it
\* answers (found, not found, error)
C11_SideEffectFree ==
  [][req'.op \in {"serve_stem", "load_project"}
       => files' = files /\ dirs' = dirs /\ uploads' = uploads]_vars

\* serve_stem has answered not found on a disk that holds stems
C11_Witness ==
  /\ req.op = "serve_stem"
  /\ resp.status = 404
  /\ files # {}

\* the top-level keys of the manifest wire shape
ManifestKeys ==
  {"status", "job_id", "splitter", "model", "output_dir", "stems", "mix",
   "child_splits"}

\* the last request was answered with a success manifest
SuccessManifest ==
  /\ req.op \in {"separate_audio", "load_project", "split_vocals", "split_drums"}
  /\ resp.status = 200

\* C12: every success manifest of separate_audio, load_project,
\* split_vocals and split_drums has all the top-level keys status, job_id,
\* splitter, model, output_dir, stems, mix and child_splits
C12_StableShape ==
  SuccessManifest => ManifestKeys \subseteq DOMAIN resp.body

\* the children split_drums lists, in order
DrumParts == <<Lit.kick, Lit.snare, Lit.hihat, Lit.cymbals>>

\* C13: split_drums answers success only when its parts were written: the
\* manifest lists kick, snare, hihat and cymbals in that order with parent
\* drums, each one a file on the disk in a directory drums/ beside the
\* stem; a run that lacks its libraries or fails while writing answers
\* with an error
C13_NoFalseSuccess ==
  req.op = "split_drums" =>
    /\ resp.status = 200 =>
          /\ resp.body.status = "success"
          /\ req.libs
          /\ req.nwritten = Len(DrumParts)
          /\ LET cs == resp.body.child_splits[Lit.drums]
             IN  /\ [i \in 1..Len(cs) |-> cs[i].name] = DrumParts
                 /\ \A i \in 1..Len(cs) :
                       /\ cs[i].parent = Lit.drums
                       /\ cs[i].path \in files
                       /\ cs[i].path[Len(cs[i].path)] = cs[i].name \o Lit.wav
                       /\ DirOf(cs[i].path)[Len(cs[i].path) - 1] = Lit.drums
                       /\ Append(DirOf(DirOf(cs[i].path)), Lit.drums \o Lit.mp3) \in files
    /\ (~req.libs \/ req.nwritten < Len(DrumParts)) =>
          /\ resp.status # 200
          /\ "error" \in DOMAIN resp.body

\* split_drums has answered with a success manifest
C13_Witness ==
  /\ req.op = "split_drums"
  /\ resp.status = 200
  /\ resp.body.child_splits[Lit.drums] # <<>>

(***************************************************************************)
(* Requests on the threads of the server                                   *)
(***************************************************************************)
\* C14: at no time are two refinement runs (split_vocals, split_drums) of
\* the same job id in progress, so no two writers write the same output
\* directory at the same time
C14_MutualExclusion ==
  \A v, w \in Workers :
    (v # w /\ writers[v] # Idle /\ writers[w] # Idle)
      => writers[v].job_id # writers[w].job_id

\* the files a manifest lists as stems and child splits
ListedFiles(m) ==
  {e.path : e \in StemEntries(m)} \cup {e.path : e \in ChildEntries(m)}

\* C15: a manifest never lists a stem or child-split file whose write has
\* not completed: load_project, reading while refiners write or after one
\* failed, lists no file that is open for writing or was left unfinished
C15_NoPartialListed ==
  [][(/\ req'.op = "load_project"
      /\ resp'.status = 200
      /\ files' = files
      /\ writers' = writers
      /\ partial' = partial)
       => ListedFiles(resp'.body) \cap partial = {}]_vars

(***************************************************************************)
(* Confinement                                                             *)
(***************************************************************************)
\* the file lies under the separated root or in the upload folder
Confined(file) ==
  /\ Len(file) >= 2
  /\ file[1] \in {SEPARATED_FOLDER, UPLOAD_FOLDER}
  /\ \A i \in DOMAIN file : file[i] # Lit.dotdot

\* C16: whatever job id and stem path the caller gives, a file served by
\* serve_stem lies under the separated root or in the upload folder, while
\* load_project and browse_folders answer for every existing directory the
\* caller names, under the root or not
C16_ConfinementAsymmetry ==
  /\ (req.op = "serve_stem" /\ resp.status = 200) => Confined(resp.file)
  /\ (req.op = "load_project" /\ req.folder_path \in dirs) => resp.status = 200
  /\ (req.op = "browse_folders" /\ req.base_path \in dirs) => resp.status = 200

\* serve_stem was asked with the job id '..' while a file of the stem's
\* name lies beside separated/, and it served a file
C16_Witness ==
  /\ req.op = "serve_stem"
  /\ req.job_id = Lit.dotdot
  /\ <<Lit.vocals \o Lit.mp3>> \in files
  /\ resp.status = 200

(***************************************************************************)
(* The refiners and the resolver                                           *)
(***************************************************************************)
\* what serve_stem answers for the stem the refiner of the next request
\* is named after, on the disk before the request
ResolvedBefore(rev) ==
  serve_stem(files, dirs, uploads, req'.job_id, parent_of(req'.op), rev)

\* C20: whenever serve_stem resolves the stem vocals (drums) of the job to
\* a file, in whatever order the disk is enumerated, split_vocals
\* (split_drums) does not answer not found, creates its split directory
\* beside that file and lists only children written there
C20_RefinerTakesResolvedStem ==
  [][(/\ req'.op \in {"split_vocals", "split_drums"}
      /\ ResolvedBefore(TRUE).status = 200
      /\ ResolvedBefore(TRUE) = ResolvedBefore(FALSE))
       => /\ resp'.status # 404
          /\ Append(DirOf(ResolvedBefore(TRUE).file), parent_of(req'.op)) \in dirs'
          /\ resp'.status = 200 =>
                \A e \in ChildEntries(resp'.body) :
                  DirOf(e.path) = Append(DirOf(ResolvedBefore(TRUE).file), parent_of(req'.op))]_vars

(***************************************************************************)
(* The audio of the refiners                                               *)
(***************************************************************************)
\* the vocal refiner has run on a track
VocalDone == req.op = "vocal_audio" /\ resp.status = 200

\* the left and the right channel of the track are equal sample for sample
PureMono == stereo(req.y)[1] = stereo(req.y)[2]

\* C17: for a pure-mono vocal input the backing output of split_vocals is
\* silence, every sample zero, and the lead output equals the input
C17_VocalMonoBoundary ==
  (VocalDone /\ PureMono) =>
    /\ \A i \in DOMAIN resp.audio.backing_final.samples :
          resp.audio.backing_final.samples[i] = 0
    /\ \A i \in DOMAIN resp.audio.lead_final.samples :
          resp.audio.lead_final.samples[i] * AmpScale
            = stereo(req.y)[1][i] * resp.audio.lead_final.over

\* the bin lies in the band from lo to hi Hz
InBand(k, lo, hi) == lo * n_fft <= k * sr /\ k * sr <= hi * n_fft

\* band is the transform with the bins outside lo..hi Hz set to zero
Isolates(band, lo, hi) ==
  \A t \in DOMAIN req.stft : \A k \in Bins :
    band[t][k] = IF InBand(k, lo, hi) THEN req.stft[t][k] ELSE 0

\* C18: in every frame and bin each masked transform of split_drums is the
\* input inside its band (kick 20-200 Hz, snare 200-2000 Hz, hi-hat
\* 2000-8000 Hz, cymbals 4000-20000 Hz) and zero outside, so the kick has
\* nothing above 200 Hz and the cymbals nothing below 4000 Hz
C18_DrumBandIsolation ==
  (req.op = "drum_audio" /\ resp.status = 200) =>
    /\ Isolates(resp.bands.kick, 20, 200)
    /\ Isolates(resp.bands.snare, 200, 2000)
    /\ Isolates(resp.bands.hihat, 2000, 8000)
    /\ Isolates(resp.bands.cymbals, 4000, 20000)
    /\ \A t \in DOMAIN req.stft : \A k \in Bins :
          /\ k * sr > 200 * n_fft => resp.bands.kick[t][k] = 0
          /\ k * sr < 4000 * n_fft => resp.bands.cymbals[t][k] = 0

\* the drum refiner has run on a 60 Hz tone and a 10 kHz tone
C18_Witness ==
  /\ req.op = "drum_audio"
  /\ resp.status = 200
  /\ \A t \in DOMAIN req.stft : \A k \in Bins : (req.stft[t][k] # 0) <=> (k \in {3, 464})
  /\ resp.bands.kick[1][3] # 0
  /\ resp.bands.cymbals[1][464] # 0

\* the centroid of frame i is within 0.7 standard deviations of the mean
\* of the centroids
WithinOfMean(c, i) ==
  LET n == Len(c)
      dev(j) == n * c[j] - SumFrom(c, 1)
  IN  100 * n * dev(i) * dev(i) <= 49 * SumFrom([j \in 1..n |-> dev(j) * dev(j)], 1)

\* C19: split_vocals classifies a frame lead-like exactly when its centroid
\* is within 0.7 standard deviations of the mean, a centroid equal to the
\* mean included, and keeps every column in exactly one of the lead and
\* backing transforms, zeroing it in the other
C19_VocalFrameMask ==
  VocalDone =>
    \A i \in DOMAIN req.spectral_centroid :
      /\ resp.audio.lead_mask[i] <=> WithinOfMean(req.spectral_centroid, i)
      /\ resp.audio.backing_mask[i] <=> ~WithinOfMean(req.spectral_centroid, i)
      /\ \/ /\ resp.audio.lead_mask[i]
            /\ resp.audio.lead_stft[i] = resp.audio.stft[i]
            /\ resp.audio.backing_stft[i] = 0
         \/ /\ resp.audio.backing_mask[i]
            /\ resp.audio.backing_stft[i] = resp.audio.stft[i]
            /\ resp.audio.lead_stft[i] = 0

(***************************************************************************)
(* Added stems                                                             *)
(***************************************************************************)
\* the last request was add_stem and it answered success
StemAdded == req.op = "add_stem" /\ resp.status = 200

\* C21: when add_stem has answered success with a url, the serve_stem
\* request for that url that follows it serves the file add_stem has just
\* written, whatever the extension of the upload and whatever the disk
\* held before
C21_AddThenResolve ==
  [][(/\ StemAdded
      /\ req'.op = "serve_stem"
      /\ route_stem(resp.body.url) = <<req'.job_id, req'.stem_path>>)
       => /\ resp'.status = 200
          /\ resp'.file = req.saved]_vars

\* C25: the file add_stem creates or overwrites lies directly inside the
\* project directory separated/{modelFolder}/{job_id}/ of the job, and the
\* upload folder is left as it was
C25_AddStemConfined ==
  (req.op = "add_stem" /\ req.saved # NoFile) =>
    /\ Len(req.saved) = 4
    /\ req.saved[1] = SEPARATED_FOLDER
    /\ req.saved[2] \in SeqToSet(model_folders)
    /\ req.saved[3] = req.job_id

(***************************************************************************)
(* The upload folder                                                       *)
(***************************************************************************)
\* the uploaded files whose filename stem is the job id
SourcesOf(job_id) == {f \in uploads : PathStem(f) = job_id}

\* C22: whatever uploads and cleanups were made, at most one file of the
\* upload folder has a filename stem equal to a given job id
C22_OneSourcePerJob ==
  \A job_id \in JobIds : Cardinality(SourcesOf(job_id)) <= 1

(***************************************************************************)
(* Jobs and parents                                                        *)
(***************************************************************************)
\* the path lies in a directory named after the job
InJobDir(path, job_id) == \E i \in 1..(Len(path) - 1) : path[i] = job_id

\* what a request for the job touches: the file served, and the directories
\* and files a refiner creates or lists as written
Touched ==
  IF req'.op = "serve_stem"
  THEN IF resp'.status = 200 THEN {resp'.file} ELSE {}
  ELSE (files' \ files) \cup (dirs' \ dirs)
         \cup (IF resp'.status = 200
               THEN {e.path : e \in ChildEntries(resp'.body)}
               ELSE {})

\* C23: serve_stem, split_vocals and split_drums asked for a job never
\* serve, create or write a path in the directory of another job, also
\* when the job id is a part of the other job's id
C23_JobIsolation ==
  [][req'.op \in {"serve_stem", "split_vocals", "split_drums"}
       => \A K \in JobIds \ {req'.job_id} :
            \A p \in Touched : ~InJobDir(p, K)]_vars

\* the directories of children of the parent: a subdirectory named after
\* the parent, or the parent's legacy split directory of a job
ChildDirOf(dir, parent) ==
  \/ Len(dir) >= 2 /\ dir[Len(dir)] = parent
  \/ /\ Len(dir) = 3
     /\ dir[1] = SEPARATED_FOLDER
     /\ \/ parent = Lit.vocals /\ dir[2] = Lit.vocal_splits
        \/ parent = Lit.drums /\ dir[2] = Lit.drum_splits

\* C24: a serve_stem request with a two-segment path {parent}/{child}
\* either serves a file in a directory of children of that parent or
\* answers 404
C24_ChildUrlsServeChildren ==
  (req.op = "serve_stem" /\ Len(SplitSlash(req.stem_path)) = 2) =>
    \/ resp.status = 404
    \/ /\ resp.status = 200
       /\ ChildDirOf(DirOf(resp.file), SplitSlash(req.stem_path)[1])

(***************************************************************************)
(* The manifest and the run                                                *)
(***************************************************************************)
\* the directory demucs was told to write for the model and the job
ToldToWrite == <<SEPARATED_FOLDER, req.model, req.job_id>>

\* C27: the manifest of a successful demucs separation reports the
\* directory the tool was told to write for the model as its output_dir,
\* and every stem path lies in it
C27_ManifestOfThisRun ==
  (ToolExited /\ req.splitter = "demucs" /\ resp.status = 200) =>
    /\ resp.body.output_dir = ToldToWrite
    /\ \A e \in StemEntries(resp.body) : DirOf(e.path) = ToldToWrite

(***************************************************************************)
(* The invocation of the tools                                             *)
(***************************************************************************)
\* C26: whatever the tool writes to its stdout and stderr, an invocation
\* that was started eventually returns or raises
C26_InvocationTerminates ==
  (proc.at = "for line in process.stdout") ~> (proc.at \in {"returned", "raised"})

====
